---- MODULE Spec2Model ----
(***************************************************************************)
(* Stream-session tracker of the ETERNITY bot.                             *)
(*                                                                         *)
(* The store holds StreamActivity documents (models/StreamActivity.js);    *)
(* the tracker operations of utils/streamUtils.js read a document with     *)
(* findOne, change the in-memory copy and write it back with save().       *)
(* save() is Mongoose's Document.save: it sends only the paths that were   *)
(* modified in memory ($set per path, $push for pushed array elements);    *)
(* a $set below an array index carries the loaded __v as a condition and   *)
(* a $push increments __v.                                                 *)
(*                                                                         *)
(* Time is in milliseconds since 00:00:00.000 UTC of day EpochDay (a day   *)
(* number counted from 1970-01-01); the process timezone is taken as UTC.  *)
(***************************************************************************)
EXTENDS Integers, Sequences, FiniteSets, TLC

VARIABLES
  docs,      \* the StreamActivity collection: documents of the one (userId, guildId) key, in insertion order
  now,       \* the wall clock, new Date()
  ticks,     \* how many times the clock has advanced
  last,      \* the tracker call completed by the last step: operation, channel, returned sessionDetails, error
  closedBy,  \* history: for each session of the aggregate, the operation that closed it
  tasks,     \* tracker calls in flight, in the order their events were observed (interleaved specification)
  base,      \* the store before the first of them began (interleaved specification)
  store,     \* the StreamActivity collection of several users: for each user, the documents of the user's key
  presence,  \* what Discord answers about each user: guild in the cache, users.fetch, members.fetch, voice state
  storeDown, \* the users for whose key a store call of recovery is rejected
  sink,      \* the notification channel: "ok", "off" (tracking disabled or no channel configured), "fails" (send rejects)
  rec,       \* checkPreviousSessionStreams: position, the active streams it found, the next one, aborted by an error
  notices,   \* the messages sent to the notification channel
  report,    \* a report run: its window, the streams it selected, the per-user statistics, the embeds returned
  proc,      \* the process: alive, whether an event was dropped, the users with an event handled since
  guilds,    \* the GuildConfig collection, in the order find() returns it, with what Discord and the sink answer for each guild
  sent,      \* the scheduled reports sent to notification channels
  conn       \* the store connection: readyState, connectionAttempts, isConnectedBefore, handlers, timers, calls

\* the variables of recovery, of the reports, of the event handler and of the scheduler
rvars == <<store, presence, storeDown, sink, rec, notices, report, proc, guilds, sent, conn>>

vars == <<docs, now, ticks, last, closedBy, tasks, base, store, presence, storeDown, sink, rec, notices, report,
         proc, guilds, sent, conn>>

----------------------------------------------------------------------------
\* Bounds of the model

\* sessions a run may append to the aggregate
MaxSessions == 2
\* clock advances in a run
MaxTicks == 2
\* tracker calls of an interleaved run
MaxTasks == 2
\* the day the run starts on, as a day number since 1970-01-01: 20239 is Saturday 2025-05-31,
\* so that one day later the month has changed and two days later the week has
EpochDay == 20239

----------------------------------------------------------------------------
\* Values

\* endTime: { type: Date, default: null }
Null == -1
MsPerMinute == 1000 * 60
DayMs == 24 * 60 * 60 * 1000
\* the run starts at 23:58:00.000 of EpochDay
StartMs == DayMs - 2 * MsPerMinute
\* the steps the clock may take: 1 ms, one ms short of a minute, a day
Jumps == {1, MsPerMinute - 1, DayMs}
Channels == {"A", "B"}
\* the users of the guild, in the order the collection returns their documents
UserOrder == <<"u1", "u2">>
Users == {UserOrder[i] : i \in 1..Len(UserOrder)}

Last(s) == s[Len(s)]

----------------------------------------------------------------------------
\* Calendar (what Date.prototype.toISOString, getDay, getFullYear compute)

\* the civil date of a day number (days since 1970-01-01), computed in stages:
\* era (400 years), day of era, year of era, day of year (from March 1st), month (from March)
CivilOf(era, yoe, doy, mp) ==
  [y |-> yoe + era * 400 + (IF mp < 10 THEN 0 ELSE 1),
   m |-> IF mp < 10 THEN mp + 3 ELSE mp - 9,
   d |-> doy - (153 * mp + 2) \div 5 + 1]

CivilInYear(era, yoe, doy) == CivilOf(era, yoe, doy, (5 * doy + 2) \div 153)

CivilInEra(era, doe, yoe) ==
  CivilInYear(era, yoe, doe - (365 * yoe + yoe \div 4 - yoe \div 100))

CivilOfEra(era, doe) ==
  CivilInEra(era, doe, (doe - doe \div 1460 + doe \div 36524 - doe \div 146096) \div 365)

CivilShifted(z) == CivilOfEra(z \div 146097, z % 146097)

CivilFromDays(dn) == CivilShifted(dn + 719468)

\* the day number of a civil date
DaysInEra(era, yoe, doy) ==
  era * 146097 + yoe * 365 + yoe \div 4 - yoe \div 100 + doy - 719468

DaysOfYear(y, mp, d) == DaysInEra(y \div 400, y % 400, (153 * mp + 2) \div 5 + d - 1)

DaysFromCivil(y, m, d) ==
  DaysOfYear(IF m <= 2 THEN y - 1 ELSE y, IF m > 2 THEN m - 3 ELSE m + 9, d)

\* date.getFullYear() + '-' + (Math.floor((date - new Date(date.getFullYear(), 0, 4)) / 7 days) + 1),
\* date being the Thursday of the week
WeekOf(thu, year) == <<year, (thu - DaysFromCivil(year, 1, 4)) \div 7 + 1>>

WeekOfThursday(thu) == WeekOf(thu, CivilFromDays(thu).y)

Periods(c, week) == [day |-> <<c.y, c.m, c.d>>, week |-> week, month |-> <<c.y, c.m>>]

\* date.setDate(date.getDate() + 3 - (date.getDay() + 6) % 7); getDay() of day number dn is (dn + 4) % 7
PeriodsOfDay(dn) ==
  Periods(CivilFromDays(dn), WeekOfThursday(dn + 3 - ((((dn + 4) % 7) + 6) % 7)))

\* { day, week, month } of the moment t:
\*   day   = toISOString().split('T')[0]   -> <<year, month, day>>
\*   week  = the year and number of the week, as above
\*   month = toISOString().slice(0, 7)     -> <<year, month>>
getTimePeriods(t) == PeriodsOfDay(EpochDay + t \div DayMs)

----------------------------------------------------------------------------
\* The StreamActivity document and its methods

\* a rolling window whose period key is not set
NoKey == <<>>

Window(key) == [key |-> key, totalMinutes |-> 0, streamCount |-> 0]

\* new StreamActivity({ userId, username, guildId, guildName, streams: [] }) at moment t:
\* the schema defaults fill the rolling windows, the totals and lastUpdated
NewActivity(t) ==
  LET p == getTimePeriods(t)
  IN [id |-> 0, v |-> 0, streams |-> <<>>,
      currentDailyTotal |-> Window(p.day),
      currentWeeklyTotal |-> Window(p.week),
      currentMonthlyTotal |-> Window(p.month),
      totalStreams |-> 0, totalStreamTime |-> 0, lastUpdated |-> t]

\* the element startStream pushes; notified: notificationMessageId and notificationChannelId are set
NewStream(t, channelId) ==
  LET p == getTimePeriods(t)
  IN [startTime |-> t, endTime |-> Null, channelId |-> channelId, duration |-> 0,
      day |-> p.day, week |-> p.week, month |-> p.month, interrupted |-> FALSE,
      notified |-> FALSE]

\* if (!this.currentXTotal || !this.currentXTotal.x) this.currentXTotal = { x, totalMinutes: 0, streamCount: 0 }
InitWindow(w, key) == IF w.key = NoKey THEN Window(key) ELSE w

startStream(doc, t, channelId) ==
  LET p == getTimePeriods(t)
  IN [doc EXCEPT !.streams = Append(@, NewStream(t, channelId)),
                 !.currentDailyTotal = InitWindow(@, p.day),
                 !.currentWeeklyTotal = InitWindow(@, p.week),
                 !.currentMonthlyTotal = InitWindow(@, p.month),
                 !.lastUpdated = t]

\* (variant: the duration rounded to the nearest minute)
DurationRound(startTime, endTime) == (endTime - startTime + MsPerMinute \div 2) \div MsPerMinute

\* Math.floor((endTime - startTime) / (1000 * 60))
DurationMinutes(startTime, endTime) == (endTime - startTime) \div MsPerMinute

\* (variant: the window is not reset when its period has changed)
RollWindowNoReset(w, key, duration) ==
  [w EXCEPT !.key = key, !.totalMinutes = @ + duration, !.streamCount = @ + 1]

\* (variant: the window is reset at every close)
RollWindowFresh(w, key, duration) ==
  [key |-> key, totalMinutes |-> duration, streamCount |-> 1]

\* reset the window when its period has changed, then add the closed session
RollWindow(w, key, duration) ==
  LET i == InitWindow(w, key)
      r == IF i.key # key THEN Window(key) ELSE i
  IN [r EXCEPT !.totalMinutes = @ + duration, !.streamCount = @ + 1]

endStream(doc, t) ==
  IF Len(doc.streams) > 0 /\ Last(doc.streams).endTime = Null
  THEN LET p == getTimePeriods(t)
           n == Len(doc.streams)
           duration == DurationMinutes(doc.streams[n].startTime, t)
       IN [doc EXCEPT !.streams[n].endTime = t,
                      !.streams[n].duration = duration,
                      !.totalStreamTime = @ + duration,
                      !.totalStreams = @ + 1,
                      !.currentDailyTotal = RollWindow(@, p.day, duration),
                      !.currentWeeklyTotal = RollWindow(@, p.week, duration),
                      !.currentMonthlyTotal = RollWindow(@, p.month, duration),
                      !.lastUpdated = t]
  ELSE doc

\* the in-memory changes of markStreamAsInterrupted to a document whose latest stream is open
CountOnly(w) == [w EXCEPT !.streamCount = @ + 1]

\* (variant: the interrupted session's minutes are added to the lifetime total)
markInterruptedCounting(doc, t) ==
  LET n == Len(doc.streams)
      duration == (t - doc.streams[n].startTime) \div MsPerMinute
  IN [doc EXCEPT !.streams[n].interrupted = TRUE,
                 !.streams[n].endTime = t,
                 !.streams[n].duration = duration,
                 !.totalStreams = @ + 1,
                 !.totalStreamTime = @ + duration,
                 !.currentDailyTotal = CountOnly(@),
                 !.currentWeeklyTotal = CountOnly(@),
                 !.currentMonthlyTotal = CountOnly(@),
                 !.lastUpdated = t]

\* (variant: the interrupted flag is not set)
markInterruptedNoFlag(doc, t) ==
  LET n == Len(doc.streams)
  IN [doc EXCEPT !.streams[n].endTime = t,
                 !.streams[n].duration = (t - doc.streams[n].startTime) \div MsPerMinute,
                 !.totalStreams = @ + 1,
                 !.currentDailyTotal = CountOnly(@),
                 !.currentWeeklyTotal = CountOnly(@),
                 !.currentMonthlyTotal = CountOnly(@),
                 !.lastUpdated = t]

markInterrupted(doc, t) ==
  LET n == Len(doc.streams)
  IN [doc EXCEPT !.streams[n].interrupted = TRUE,
                 !.streams[n].endTime = t,
                 !.streams[n].duration = DurationMinutes(doc.streams[n].startTime, t),
                 !.totalStreams = @ + 1,
                 !.currentDailyTotal = CountOnly(@),
                 !.currentWeeklyTotal = CountOnly(@),
                 !.currentMonthlyTotal = CountOnly(@),
                 !.lastUpdated = t]

\* sessionDetails returned for a closed stream
SessionDetails(s) ==
  [startTime |-> s.startTime, endTime |-> s.endTime, duration |-> s.duration,
   channelId |-> s.channelId, interrupted |-> s.interrupted]

----------------------------------------------------------------------------
\* The store

\* StreamActivity.findOne({ userId, guildId }): the first matching document, or none
FindOne(ds) == IF Len(ds) = 0 THEN <<>> ELSE <<ds[1]>>

Pick(new, old, stored) == IF new # old THEN new ELSE stored

WindowDelta(stored, orig, cur) ==
  [key |-> Pick(cur.key, orig.key, stored.key),
   totalMinutes |-> Pick(cur.totalMinutes, orig.totalMinutes, stored.totalMinutes),
   streamCount |-> Pick(cur.streamCount, orig.streamCount, stored.streamCount)]

StreamDelta(stored, orig, cur) ==
  [f \in DOMAIN stored |-> Pick(cur[f], orig[f], stored[f])]

\* the elements pushed in memory since the document was loaded
Pushed(orig, cur) == SubSeq(cur.streams, Len(orig.streams) + 1, Len(cur.streams))

\* a path below an array index was modified: the update carries { __v: loaded version }
VersionWhere(orig, cur) ==
  \E i \in 1..Len(orig.streams) : cur.streams[i] # orig.streams[i]

\* what the update of save() leaves in the store: the modified paths are written,
\* pushed elements are appended to the stored array and increment __v
ApplyDelta(stored, orig, cur) ==
  [id |-> stored.id,
   v |-> IF Pushed(orig, cur) # <<>> THEN stored.v + 1 ELSE stored.v,
   streams |->
     [i \in 1..Len(stored.streams) |->
        IF i <= Len(orig.streams)
        THEN StreamDelta(stored.streams[i], orig.streams[i], cur.streams[i])
        ELSE stored.streams[i]] \o Pushed(orig, cur),
   currentDailyTotal |-> WindowDelta(stored.currentDailyTotal, orig.currentDailyTotal, cur.currentDailyTotal),
   currentWeeklyTotal |-> WindowDelta(stored.currentWeeklyTotal, orig.currentWeeklyTotal, cur.currentWeeklyTotal),
   currentMonthlyTotal |-> WindowDelta(stored.currentMonthlyTotal, orig.currentMonthlyTotal, cur.currentMonthlyTotal),
   totalStreams |-> Pick(cur.totalStreams, orig.totalStreams, stored.totalStreams),
   totalStreamTime |-> Pick(cur.totalStreamTime, orig.totalStreamTime, stored.totalStreamTime),
   lastUpdated |-> Pick(cur.lastUpdated, orig.lastUpdated, stored.lastUpdated)]

\* doc.save() of a loaded document: fails (VersionError) when the version condition does not match
SaveOk(ds, orig, cur) == VersionWhere(orig, cur) => ds[orig.id].v = orig.v

\* (variant: save() writes the whole in-memory document over the stored one)
SaveWhole(ds, orig, cur) == [ds EXCEPT ![orig.id] = cur]

Save(ds, orig, cur) == [ds EXCEPT ![orig.id] = ApplyDelta(@, orig, cur)]

\* doc.save() of a new document: inserted at the end of the collection
Insert(ds, doc) == Append(ds, [doc EXCEPT !.id = Len(ds) + 1])

----------------------------------------------------------------------------
\* The tracker operations of utils/streamUtils.js, as the steps they take between
\* awaits. A step is the effect of the awaited store call together with the
\* synchronous code that follows it, up to the next await.
\*   startStreamSession:      getOrCreate [insert] endFind [endSave] save
\*   endStreamSession:        endFind [endSave]
\*   markStreamAsInterrupted: intFind [intSave]

NewTask(op, channelId) ==
  [op |-> op, ch |-> channelId,
   pc |-> CASE op = "start" -> "getOrCreate" [] op = "end" -> "endFind" [] OTHER -> "intFind",
   act |-> <<>>, pushed |-> <<>>, orig |-> <<>>, cur |-> <<>>, ret |-> <<>>, err |-> FALSE]

Done(k) == k.pc = "done"

\* (variant: the endTime of the latest stream is not looked at)
HasStreams(found) ==
  /\ found # <<>>
  /\ Len(found[1].streams) > 0

\* the latest stream of a found document is active (no endTime)
HasOpen(found) ==
  /\ found # <<>>
  /\ Len(found[1].streams) > 0
  /\ Last(found[1].streams).endTime = Null

\* startStreamSession after endStreamSession has returned: streamActivity.startStream(...), then save()
ThenStart(k, t) ==
  [k EXCEPT !.pushed = <<startStream(k.act[1], t, k.ch)>>, !.pc = "save"]

\* getOrCreateStreamActivity: findOne, and a new document when there is none
StepGetOrCreate(ds, t, k) ==
  LET found == FindOne(ds)
  IN IF found # <<>>
     THEN [docs |-> ds, task |-> [k EXCEPT !.act = found, !.pc = "endFind"]]
     ELSE [docs |-> ds, task |-> [k EXCEPT !.act = <<NewActivity(t)>>, !.pc = "insert"]]

\* await streamActivity.save() of the new document
StepInsert(ds, t, k) ==
  LET ds2 == Insert(ds, k.act[1])
  IN [docs |-> ds2, task |-> [k EXCEPT !.act = <<Last(ds2)>>, !.pc = "endFind"]]

\* (variant: startStreamSession does not end the existing stream first)
StepEndFindNoClose(ds, t, k) ==
  LET found == FindOne(ds)
  IN IF HasOpen(found) /\ k.op # "start"
     THEN [docs |-> ds,
           task |-> [k EXCEPT !.orig = found, !.cur = <<endStream(found[1], t)>>, !.pc = "endSave"]]
     ELSE [docs |-> ds,
           task |-> IF k.op = "start" THEN ThenStart(k, t) ELSE [k EXCEPT !.pc = "done"]]

\* endStreamSession up to its save: findOne, the checks, streamActivity.endStream()
StepEndFind(ds, t, k) ==
  LET found == FindOne(ds)
  IN IF HasOpen(found)
     THEN [docs |-> ds,
           task |-> [k EXCEPT !.orig = found, !.cur = <<endStream(found[1], t)>>, !.pc = "endSave"]]
     ELSE [docs |-> ds,
           task |-> IF k.op = "start" THEN ThenStart(k, t) ELSE [k EXCEPT !.pc = "done"]]

\* the save of a closed stream (endStreamSession, markStreamAsInterrupted) and the return of its details;
\* a VersionError is rethrown by the catch blocks and ends the call
StepCloseSave(ds, t, k) ==
  IF SaveOk(ds, k.orig[1], k.cur[1])
  THEN LET r == [k EXCEPT !.ret = <<SessionDetails(Last(k.cur[1].streams))>>]
       IN [docs |-> Save(ds, k.orig[1], k.cur[1]),
           task |-> IF k.op = "start" THEN ThenStart(r, t) ELSE [r EXCEPT !.pc = "done"]]
  ELSE [docs |-> ds, task |-> [k EXCEPT !.err = TRUE, !.pc = "done"]]

\* await streamActivity.save() at the end of startStreamSession
StepSave(ds, t, k) ==
  IF SaveOk(ds, k.act[1], k.pushed[1])
  THEN [docs |-> Save(ds, k.act[1], k.pushed[1]), task |-> [k EXCEPT !.pc = "done"]]
  ELSE [docs |-> ds, task |-> [k EXCEPT !.err = TRUE, !.pc = "done"]]

\* (variant: the latest stream is marked interrupted whether or not it is active)
StepIntFindAnyLatest(ds, t, k) ==
  LET found == FindOne(ds)
  IN IF HasStreams(found)
     THEN [docs |-> ds,
           task |-> [k EXCEPT !.orig = found, !.cur = <<markInterrupted(found[1], t)>>, !.pc = "intSave"]]
     ELSE [docs |-> ds, task |-> [k EXCEPT !.pc = "done"]]

\* markStreamAsInterrupted up to its save
StepIntFind(ds, t, k) ==
  LET found == FindOne(ds)
  IN IF HasOpen(found)
     THEN [docs |-> ds,
           task |-> [k EXCEPT !.orig = found, !.cur = <<markInterrupted(found[1], t)>>, !.pc = "intSave"]]
     ELSE [docs |-> ds, task |-> [k EXCEPT !.pc = "done"]]

Step(ds, t, k) ==
  CASE k.pc = "getOrCreate" -> StepGetOrCreate(ds, t, k)
    [] k.pc = "insert"      -> StepInsert(ds, t, k)
    [] k.pc = "endFind"     -> StepEndFind(ds, t, k)
    [] k.pc = "endSave"     -> StepCloseSave(ds, t, k)
    [] k.pc = "intFind"     -> StepIntFind(ds, t, k)
    [] k.pc = "intSave"     -> StepCloseSave(ds, t, k)
    [] k.pc = "save"        -> StepSave(ds, t, k)
    [] OTHER                -> [docs |-> ds, task |-> k]

\* a call that runs to completion with no other call in between
RECURSIVE Run(_, _, _)
Run(ds, t, k) ==
  IF Done(k) THEN [docs |-> ds, task |-> k]
  ELSE LET r == Step(ds, t, k) IN Run(r.docs, t, r.task)

startStreamSession(ds, t, channelId) == Run(ds, t, NewTask("start", channelId))
endStreamSession(ds, t) == Run(ds, t, NewTask("end", "A"))
markStreamAsInterrupted(ds, t) == Run(ds, t, NewTask("interrupt", "A"))

\* (variant: the channel switch closes the previous stream the way recovery does)
SwitchChannelsInterrupting(ds, t, channelId) ==
  startStreamSession(markStreamAsInterrupted(ds, t).docs, t, channelId)

\* the VoiceStateUpdate handler's channel switch: endStreamSession, then startStreamSession
SwitchChannels(ds, t, channelId) ==
  startStreamSession(endStreamSession(ds, t).docs, t, channelId)

----------------------------------------------------------------------------
\* The aggregate of the key and what the history variables record

Streams(ds) == IF Len(ds) = 0 THEN <<>> ELSE ds[1].streams

OpenCount(ds) == Cardinality({i \in 1..Len(Streams(ds)) : Streams(ds)[i].endTime = Null})

\* the sessions of all documents of the key
TotalStreams(ds) == IF Len(ds) = 0 THEN 0 ELSE Len(ds[1].streams)

\* closedBy after a call of operation op has changed the store to ds
Closers(cb, ds, op) ==
  [i \in 1..Len(Streams(ds)) |->
     IF Streams(ds)[i].endTime = Null THEN "open"
     ELSE IF i <= Len(cb) /\ cb[i] # "open" THEN cb[i]
     ELSE op]

NoCall == [op |-> "none", ch |-> "A", ret |-> <<>>, err |-> FALSE]

\* a member in no voice channel
NoVoice == [guild |-> TRUE, user |-> TRUE, member |-> TRUE, channelId |-> "none", streaming |-> FALSE]

\* checkPreviousSessionStreams has not been called
NotStarted == [pc |-> "start", listed |-> <<>>, next |-> 1, aborted |-> FALSE]

\* a report run for the window [startTime, endTime] before its query
NewReport(startTime, endTime) ==
  [pc |-> "query", startTime |-> startTime, endTime |-> endTime,
   found |-> 0, processedStreams |-> <<>>, userStreams |-> <<>>, embeds |-> <<>>]

\* the process is running and no event has been dropped
Running == [alive |-> TRUE, dropped |-> FALSE, since |-> {}]

\* the connection as connectDB leaves it when the first attempt succeeds: readyState 1,
\* connectionAttempts 1, the handlers installed after the 'connected' event of the
\* attempt was emitted, no timer set and no connectDB call in flight
Connected ==
  [readyState |-> 1, attempts |-> 1, isConnectedBefore |-> FALSE, handlers |-> 1,
   timers |-> 0, calls |-> 0, established |-> TRUE]

\* no report is scheduled and the store is connected
NoScheduler ==
  /\ proc = Running
  /\ guilds = <<>>
  /\ sent = <<>>
  /\ conn = Connected

\* no other user, the ready handler is not running and no report is asked for
NoRecovery ==
  /\ NoScheduler
  /\ store = [u \in Users |-> <<>>]
  /\ presence = [u \in Users |-> NoVoice]
  /\ storeDown = {}
  /\ sink = "ok"
  /\ rec = [NotStarted EXCEPT !.pc = "idle"]
  /\ notices = <<>>
  /\ report = [NewReport(0, 0) EXCEPT !.pc = "idle"]

Init ==
  /\ NoRecovery
  /\ docs = <<>>
  /\ now = StartMs
  /\ ticks = 0
  /\ last = NoCall
  /\ closedBy = <<>>
  /\ tasks = <<>>
  /\ base = <<>>

\* the clock advances
Tick ==
  /\ ticks < MaxTicks
  /\ \E j \in Jumps : now' = now + j
  /\ ticks' = ticks + 1
  /\ last' = NoCall
  /\ UNCHANGED <<docs, closedBy, tasks, base>>
  /\ UNCHANGED rvars

Completed(op, closer, r) ==
  /\ docs' = r.docs
  /\ last' = [op |-> op, ch |-> r.task.ch, ret |-> r.task.ret, err |-> r.task.err]
  /\ closedBy' = Closers(closedBy, r.docs, closer)
  /\ UNCHANGED <<now, ticks, tasks, base>>
  /\ UNCHANGED rvars

StartSession ==
  /\ TotalStreams(docs) < MaxSessions
  /\ \E c \in Channels : Completed("start", "end", startStreamSession(docs, now, c))

EndSession == Completed("end", "end", endStreamSession(docs, now))

MarkInterrupted == Completed("interrupt", "interrupt", markStreamAsInterrupted(docs, now))

ChannelSwitch ==
  /\ TotalStreams(docs) < MaxSessions
  /\ \E c \in Channels : Completed("switch", "end", SwitchChannels(docs, now, c))

Next == Tick \/ StartSession \/ EndSession \/ MarkInterrupted \/ ChannelSwitch

\* tracker calls one after the other
Spec == Init /\ [][Next]_vars

----------------------------------------------------------------------------
\* Tracker calls in flight at the same time: the VoiceStateUpdate handlers and the
\* recovery of the ready handler are async functions, and the steps of their tracker
\* calls interleave at every await.

\* stores the program reaches with no call in flight: no aggregate, an open session, a closed one
QuietStores ==
  LET opened == startStreamSession(<<>>, StartMs, "A").docs
  IN {<<>>, opened, endStreamSession(opened, StartMs).docs}

InitConc ==
  /\ NoRecovery
  /\ docs \in QuietStores
  /\ base = docs
  /\ now = StartMs
  /\ ticks = 0
  /\ last = NoCall
  /\ closedBy = <<>>
  /\ tasks = <<>>

\* an event is observed and its tracker call begins
Begin ==
  /\ Len(tasks) < MaxTasks
  /\ \/ \E c \in Channels : tasks' = Append(tasks, NewTask("start", c))
     \/ tasks' = Append(tasks, NewTask("end", "A"))
     \/ tasks' = Append(tasks, NewTask("interrupt", "A"))
  /\ UNCHANGED <<docs, now, ticks, last, closedBy, base>>
  /\ UNCHANGED rvars

\* a call in flight takes its next step
StepTask ==
  \E i \in 1..Len(tasks) :
    /\ ~Done(tasks[i])
    /\ LET r == Step(docs, now, tasks[i])
       IN /\ docs' = r.docs
          /\ tasks' = [tasks EXCEPT ![i] = r.task]
    /\ UNCHANGED <<now, ticks, last, closedBy, base>>
    /\ UNCHANGED rvars

\* a minute passes while calls are in flight
TickMinute ==
  /\ ticks < MaxTicks
  /\ now' = now + MsPerMinute
  /\ ticks' = ticks + 1
  /\ UNCHANGED <<docs, last, closedBy, tasks, base>>
  /\ UNCHANGED rvars

NextConc == Begin \/ StepTask \/ TickMinute

SpecConc == InitConc /\ [][NextConc]_vars

\* the store after the calls ks have run one after the other, in their order
RECURSIVE InOrder(_, _, _, _)
InOrder(ds, t, ks, i) ==
  IF i > Len(ks) THEN ds
  ELSE InOrder(Run(ds, t, NewTask(ks[i].op, ks[i].ch)).docs, t, ks, i + 1)

\* a store without its timestamps and minutes
Shape(ds) ==
  [i \in 1..Len(ds) |->
     [streams |-> [j \in 1..Len(ds[i].streams) |->
                     [open |-> ds[i].streams[j].endTime = Null,
                      interrupted |-> ds[i].streams[j].interrupted,
                      channelId |-> ds[i].streams[j].channelId]],
      totalStreams |-> ds[i].totalStreams]]

----------------------------------------------------------------------------
\* Crash recovery: checkPreviousSessionStreams, called once by the ready handler.

\* what Discord may answer about a user at startup
Presences ==
  { [NoVoice EXCEPT !.guild = FALSE, !.channelId = "A", !.streaming = TRUE],
    [NoVoice EXCEPT !.user = FALSE, !.channelId = "A", !.streaming = TRUE],
    [NoVoice EXCEPT !.member = FALSE],
    NoVoice,
    [NoVoice EXCEPT !.channelId = "A"],
    [NoVoice EXCEPT !.channelId = "A", !.streaming = TRUE],
    [NoVoice EXCEPT !.channelId = "B", !.streaming = TRUE] }

\* what the run before the restart may have left under one key: a session open in A or
\* in B since 00:00, a closed session followed by an open one, a closed session only
PriorRuns ==
  LET openA == startStreamSession(<<>>, 0, "A").docs
      openB == startStreamSession(<<>>, 0, "B").docs
  IN {openA, openB,
      startStreamSession(openB, MsPerMinute, "A").docs,
      endStreamSession(openA, MsPerMinute).docs}

\* the entry getAllActiveStreams makes for a document whose latest stream has no endTime
ActiveEntry(u, doc) ==
  [userId |-> u, channelId |-> Last(doc.streams).channelId, startTime |-> Last(doc.streams).startTime]

\* the documents of one key that StreamActivity.find({ streams: { $elemMatch: { endTime: null } } })
\* returns, reduced to those whose latest stream is active
ActiveOfKey(u, ds) ==
  LET matched == SelectSeq(ds, LAMBDA d : \E i \in 1..Len(d.streams) : d.streams[i].endTime = Null)
      active == SelectSeq(matched, LAMBDA d : Last(d.streams).endTime = Null)
  IN [i \in 1..Len(active) |-> ActiveEntry(u, active[i])]

RECURSIVE getAllActiveStreams(_, _)
getAllActiveStreams(st, i) ==
  IF i > Len(UserOrder) THEN <<>>
  ELSE ActiveOfKey(UserOrder[i], st[UserOrder[i]]) \o getAllActiveStreams(st, i + 1)

\* (variant: streaming anywhere in the guild counts as still streaming)
StreamingAnywhere(pr, stream) ==
  /\ pr.member
  /\ pr.channelId # "none"
  /\ pr.streaming

\* (variant: the channel comparison is inverted)
StreamingElsewhere(pr, stream) ==
  /\ pr.member
  /\ pr.channelId # "none"
  /\ pr.streaming
  /\ pr.channelId # stream.channelId

\* member && member.voice.channelId && member.voice.streaming && member.voice.channelId === stream.channelId
isCurrentlyStreaming(pr, stream) ==
  /\ pr.member
  /\ pr.channelId # "none"
  /\ pr.streaming
  /\ pr.channelId = stream.channelId

\* the "stream ended" message of sendStreamNotification
EndedNotice(stream, duration, interrupted) ==
  [userId |-> stream.userId, channelId |-> stream.channelId, isStarting |-> FALSE,
   duration |-> duration, interrupted |-> interrupted]

\* sendStreamNotification: nothing is sent when tracking is disabled or no channel is
\* configured; an error of the send is caught and logged
sendStreamNotification(ns, snk, notice) ==
  IF snk = "ok" THEN Append(ns, notice) ELSE ns

\* the outcome of one iteration of the loop
Outcome(st, ns, threw) == [store |-> st, notices |-> ns, threw |-> threw]

\* (variant: no notification is sent for an interrupted stream)
InterruptSilently(st, ns, stream, t, down, snk, notify) ==
  IF stream.userId \in down
  THEN Outcome(st, ns, TRUE)
  ELSE Outcome([st EXCEPT ![stream.userId] = markStreamAsInterrupted(st[stream.userId], t).docs], ns, FALSE)

\* await markStreamAsInterrupted(stream.userId, stream.guildId), which rethrows the error
\* of a rejected store call, and (notify) the notification of the result
Interrupt(st, ns, stream, t, down, snk, notify) ==
  IF stream.userId \in down
  THEN Outcome(st, ns, TRUE)
  ELSE LET r == markStreamAsInterrupted(st[stream.userId], t)
           st2 == [st EXCEPT ![stream.userId] = r.docs]
       IN IF notify /\ r.task.ret # <<>>
          THEN Outcome(st2, sendStreamNotification(ns, snk, EndedNotice(stream, r.task.ret[1].duration, TRUE)), FALSE)
          ELSE Outcome(st2, ns, FALSE)

\* (variant: an unknown guild is skipped)
ReconcileKnownGuilds(st, ns, pr, stream, t, down, snk) ==
  IF ~pr.guild THEN Outcome(st, ns, FALSE)
  ELSE IF ~pr.user THEN Interrupt(st, ns, stream, t, down, snk, FALSE)
  ELSE IF ~isCurrentlyStreaming(pr, stream) THEN Interrupt(st, ns, stream, t, down, snk, TRUE)
  ELSE Outcome(st, ns, FALSE)

\* the body of the loop for one active stream
ReconcileStream(st, ns, pr, stream, t, down, snk) ==
  IF ~pr.guild THEN Interrupt(st, ns, stream, t, down, snk, FALSE)
  ELSE IF ~pr.user THEN Interrupt(st, ns, stream, t, down, snk, FALSE)
  ELSE IF ~isCurrentlyStreaming(pr, stream) THEN Interrupt(st, ns, stream, t, down, snk, TRUE)
  ELSE Outcome(st, ns, FALSE)

\* the store at startup: what the prior run left, and what Discord and the sink will answer
InitRecoveryFaults ==
  /\ docs = <<>>
  /\ now = StartMs
  /\ ticks = 0
  /\ last = NoCall
  /\ closedBy = <<>>
  /\ tasks = <<>>
  /\ base = <<>>
  /\ store \in [Users -> PriorRuns]
  /\ presence \in [Users -> Presences]
  /\ storeDown \in SUBSET Users
  /\ sink \in {"ok", "off", "fails"}
  /\ rec = NotStarted
  /\ notices = <<>>
  /\ report = [NewReport(0, 0) EXCEPT !.pc = "idle"]
  /\ NoScheduler

InitRecovery ==
  /\ InitRecoveryFaults
  /\ storeDown = {}

\* if (mongoose.connection.readyState !== 1) return [], before the find
ActiveStreamsIfConnected(st, c) == IF c.readyState # 1 THEN <<>> ELSE getAllActiveStreams(st, 1)

\* const activeStreams = await getAllActiveStreams(); if (activeStreams.length === 0) return;
BeginRecovery ==
  /\ rec.pc = "start"
  /\ LET found == ActiveStreamsIfConnected(store, conn)
     IN rec' = [rec EXCEPT !.listed = found, !.pc = IF Len(found) = 0 THEN "done" ELSE "loop"]
  /\ UNCHANGED <<docs, now, ticks, last, closedBy, tasks, base, store, presence, storeDown, sink, notices, report, proc, guilds, sent, conn>>

\* one iteration of for (const stream of activeStreams); an error leaves the loop for
\* the catch block of checkPreviousSessionStreams
Reconcile ==
  /\ rec.pc = "loop"
  /\ LET stream == rec.listed[rec.next]
         r == ReconcileStream(store, notices, presence[stream.userId], stream, now, storeDown, sink)
     IN /\ store' = r.store
        /\ notices' = r.notices
        /\ rec' = [rec EXCEPT !.next = IF r.threw THEN @ ELSE @ + 1,
                              !.aborted = r.threw,
                              !.pc = IF r.threw \/ rec.next = Len(rec.listed) THEN "done" ELSE "loop"]
  /\ UNCHANGED <<docs, now, ticks, last, closedBy, tasks, base, presence, storeDown, sink, report, proc, guilds, sent, conn>>

NextRecovery == BeginRecovery \/ Reconcile \/ TickMinute

\* recovery with a store that answers every call
SpecRecovery == InitRecovery /\ [][NextRecovery]_vars

\* recovery with store calls that may be rejected
SpecRecoveryFaults == InitRecoveryFaults /\ [][NextRecovery]_vars

----------------------------------------------------------------------------
\* Reports: what generateHourlyReport and generateDailyReport (utils/reportUtils) do with
\* their window [startTime, endTime] once it is computed.

\* (variant: without the streams that span the whole period)
OverlapsNoSpan(stream, startTime, endTime) ==
  \/ stream.startTime >= startTime /\ stream.startTime <= endTime
  \/ stream.endTime # Null /\ stream.endTime >= startTime /\ stream.endTime <= endTime

\* if (streamStartInPeriod || streamEndInPeriod || streamSpansPeriod)
Overlaps(stream, startTime, endTime) ==
  \/ stream.startTime >= startTime /\ stream.startTime <= endTime
  \/ stream.endTime # Null /\ stream.endTime >= startTime /\ stream.endTime <= endTime
  \/ stream.startTime <= startTime /\ (stream.endTime = Null \/ stream.endTime >= endTime)

\* StreamActivity.find({ guildId, streams: { $elemMatch: { $or: [...] } } }): the documents
\* with a stream that matches
RECURSIVE FindOverlapping(_, _, _, _)
FindOverlapping(ds, i, startTime, endTime) ==
  IF i > Len(ds) THEN <<>>
  ELSE (IF \E j \in 1..Len(ds[i].streams) : Overlaps(ds[i].streams[j], startTime, endTime)
        THEN <<ds[i]>> ELSE <<>>) \o FindOverlapping(ds, i + 1, startTime, endTime)

\* const streamId = `${stream.startTime.getTime()}-${stream.channelId}`
StreamId(stream) == <<stream.startTime, stream.channelId>>

\* const isIncomplete = !stream.endTime || stream.endTime === 'Unknown'
IsIncomplete(stream) == stream.endTime = Null

\* processedStreams.push({ ... })
ProcessedStream(u, stream) ==
  [userId |-> u, startTime |-> stream.startTime, endTime |-> stream.endTime,
   channelId |-> stream.channelId, interrupted |-> stream.interrupted,
   isIncomplete |-> IsIncomplete(stream), duration |-> stream.duration]

\* (variant: no stream is skipped as a duplicate)
RECURSIVE ProcessStreamsAll(_, _, _, _, _, _, _)
ProcessStreamsAll(u, streams, i, seen, pushed, startTime, endTime) ==
  IF i > Len(streams) THEN [pushed |-> pushed, seen |-> seen]
  ELSE IF Overlaps(streams[i], startTime, endTime)
       THEN ProcessStreamsAll(u, streams, i + 1, seen \cup {StreamId(streams[i])},
                              Append(pushed, ProcessedStream(u, streams[i])), startTime, endTime)
       ELSE ProcessStreamsAll(u, streams, i + 1, seen, pushed, startTime, endTime)

\* for (const stream of activity.streams): the streams of the period are pushed, a stream
\* whose id was already seen for the user is skipped. Returns what was pushed and the ids seen.
RECURSIVE ProcessStreams(_, _, _, _, _, _, _)
ProcessStreams(u, streams, i, seen, pushed, startTime, endTime) ==
  IF i > Len(streams) THEN [pushed |-> pushed, seen |-> seen]
  ELSE IF Overlaps(streams[i], startTime, endTime) /\ StreamId(streams[i]) \notin seen
       THEN ProcessStreams(u, streams, i + 1, seen \cup {StreamId(streams[i])},
                           Append(pushed, ProcessedStream(u, streams[i])), startTime, endTime)
       ELSE ProcessStreams(u, streams, i + 1, seen, pushed, startTime, endTime)

\* the activities of one user, with the user's set of userStreamCounts
RECURSIVE ProcessActivities(_, _, _, _, _, _, _), ProcessActivitiesAfter(_, _, _, _, _, _)
ProcessActivities(u, found, i, seen, pushed, startTime, endTime) ==
  IF i > Len(found) THEN pushed
  ELSE ProcessActivitiesAfter(u, found, i, ProcessStreams(u, found[i].streams, 1, seen, pushed, startTime, endTime),
                              startTime, endTime)

ProcessActivitiesAfter(u, found, i, r, startTime, endTime) ==
  ProcessActivities(u, found, i + 1, r.seen, r.pushed, startTime, endTime)

\* for (const activity of streamActivities), the documents in the order of the collection
RECURSIVE ProcessAll(_, _, _, _)
ProcessAll(st, k, startTime, endTime) ==
  IF k > Len(UserOrder) THEN <<>>
  ELSE ProcessActivities(UserOrder[k], FindOverlapping(st[UserOrder[k]], 1, startTime, endTime),
                         1, {}, <<>>, startTime, endTime)
       \o ProcessAll(st, k + 1, startTime, endTime)

\* processedStreams.sort((a, b) => b.startTime - a.startTime): newest first, equal keys in their order
InsertNewestFirst(sorted, x) ==
  LET n == Cardinality({i \in 1..Len(sorted) : sorted[i].startTime >= x.startTime})
  IN SubSeq(sorted, 1, n) \o <<x>> \o SubSeq(sorted, n + 1, Len(sorted))

RECURSIVE SortNewestFirst(_, _, _)
SortNewestFirst(seq, i, sorted) ==
  IF i > Len(seq) THEN sorted
  ELSE SortNewestFirst(seq, i + 1, InsertNewestFirst(sorted, seq[i]))

\* Math.max(0, Math.round((streamEnd - streamStart) / 1000))
ClippedSeconds(streamStart, streamEnd) ==
  IF (streamEnd - streamStart + 500) \div 1000 > 0 THEN (streamEnd - streamStart + 500) \div 1000 ELSE 0

\* "Calculate duration within the report period": durationSec of a processed stream
DurationSec(stream, startTime, endTime) ==
  IF stream.isIncomplete
  THEN ClippedSeconds(IF stream.startTime > startTime THEN stream.startTime ELSE startTime, endTime)
  ELSE IF stream.duration > 0
       THEN stream.duration * 60
       ELSE ClippedSeconds(IF stream.startTime > startTime THEN stream.startTime ELSE startTime,
                           IF stream.endTime # Null /\ stream.endTime < endTime THEN stream.endTime ELSE endTime)

RECURSIVE SumSeconds(_, _)
SumSeconds(streams, i) ==
  IF i > Len(streams) THEN 0 ELSE streams[i].duration + SumSeconds(streams, i + 1)

\* userStreams[userId].streams.push({ ... })
ReportedStream(stream, startTime, endTime) ==
  [channelId |-> stream.channelId, startTime |-> stream.startTime, endTime |-> stream.endTime,
   duration |-> DurationSec(stream, startTime, endTime),
   interrupted |-> stream.interrupted, isIncomplete |-> stream.isIncomplete]

\* userStreams[userId] after processedStreams.forEach, from the user's processed streams
UserSummaryOf(streams) ==
  [streamCount |-> Len(streams),
   totalDuration |-> SumSeconds(streams, 1),
   incompleteCount |-> Cardinality({i \in 1..Len(streams) : streams[i].isIncomplete}),
   streams |-> streams]

UserSummary(processed, u, startTime, endTime) ==
  UserSummaryOf([i \in 1..Len(SelectSeq(processed, LAMBDA p : p.userId = u)) |->
                   ReportedStream(SelectSeq(processed, LAMBDA p : p.userId = u)[i], startTime, endTime)])

UserStreams(processed, startTime, endTime) ==
  [u \in {processed[i].userId : i \in 1..Len(processed)} |-> UserSummary(processed, u, startTime, endTime)]

\* const MAX_STREAMS_PER_PAGE = 6
MAX_STREAMS_PER_PAGE == 6

\* Object.keys(userStreams): the users in the order their first processed stream was met
RECURSIVE UserKeys(_, _, _)
UserKeys(processed, i, keys) ==
  IF i > Len(processed) THEN keys
  ELSE UserKeys(processed, i + 1,
                IF \E k \in 1..Len(keys) : keys[k] = processed[i].userId
                THEN keys ELSE Append(keys, processed[i].userId))

\* allStreamEntries: for each key of userStreams a user header, then the user's streams
RECURSIVE AllStreamEntries(_, _, _)
AllStreamEntries(us, keys, k) ==
  IF k > Len(keys) THEN <<>>
  ELSE <<[type |-> "user-header", userId |-> keys[k], stream |-> <<>>]>>
       \o [i \in 1..Len(us[keys[k]].streams) |->
             [type |-> "stream", userId |-> keys[k], stream |-> <<us[keys[k]].streams[i]>>]]
       \o AllStreamEntries(us, keys, k + 1)

\* the embeds of a report: an embed has a kind ("no-streams", "error", "page") and, after
\* the summary field that every page carries, one field per user with the user's stream details
NoStreamsEmbed == [kind |-> "no-streams", fields |-> <<>>]
ErrorEmbed == [kind |-> "error", fields |-> <<>>]

\* the counters of the page loop: embeds, currentEmbed (open: there is one, fields: its user
\* fields), streamsOnCurrentPage, currentUserContent, currentUserId
NoPage == [embeds |-> <<>>, open |-> FALSE, fields |-> <<>>, onPage |-> 0, content |-> <<>>, user |-> "none"]

\* the field of the current user: name from userStreams[currentUserId], value currentUserContent
UserField(p) == [userId |-> p.user, streams |-> p.content]

\* if (currentEmbed && currentUserContent) { currentEmbed.addFields([...]); embeds.push(currentEmbed) }
PushPage(p) ==
  IF p.open /\ p.content # <<>>
  THEN Append(p.embeds, [kind |-> "page", fields |-> Append(p.fields, UserField(p))])
  ELSE p.embeds

\* the current embed is finished and a new one is created, the counters are reset
NewPage(p) ==
  [embeds |-> PushPage(p), open |-> TRUE, fields |-> <<>>, onPage |-> 0, content |-> <<>>, user |-> "none"]

\* if (!currentEmbed || (streamsOnCurrentPage >= MAX_STREAMS_PER_PAGE && entry.type === 'user-header'))
StartsPage(p, entry) ==
  ~p.open \/ (p.onPage >= MAX_STREAMS_PER_PAGE /\ entry.type = "user-header")

\* "Process the current entry": a header adds the field of the user before it and sets the
\* current user; a stream is added to the current user's content and counted
PlaceEntry(p, entry) ==
  IF entry.type = "user-header"
  THEN [p EXCEPT !.fields = IF p.user # "none" /\ p.content # <<>> THEN Append(@, UserField(p)) ELSE @,
                 !.content = IF p.user # "none" /\ p.content # <<>> THEN <<>> ELSE @,
                 !.user = entry.userId]
  ELSE [p EXCEPT !.content = Append(@, entry.stream[1]), !.onPage = @ + 1]

\* for (let i = 0; i < allStreamEntries.length; i++), then "Add the last user and embed"
RECURSIVE Paginate(_, _, _)
Paginate(entries, i, p) ==
  IF i > Len(entries) THEN PushPage(p)
  ELSE Paginate(entries, i + 1,
                PlaceEntry(IF StartsPage(p, entries[i]) THEN NewPage(p) ELSE p, entries[i]))

\* logger.addRequestStep(requestId, 'creating-pages', { pageCount, totalStreams: totalStreamCount }):
\* the identifier pageCount is declared nowhere in the module (the count computed on the line
\* before is named estimatedPageCount), so that evaluating the argument throws a ReferenceError
PageCountDeclared == FALSE

\* (variant: a report of no streams is an empty list of embeds)
EmbedsEmptyList(processed, us) ==
  IF Len(processed) = 0 THEN <<>>
  ELSE IF ~PageCountDeclared THEN <<ErrorEmbed>>
  ELSE Paginate(AllStreamEntries(us, UserKeys(processed, 1, <<>>), 1), 1, NoPage)

\* the embeds returned: the "No Streams" embed when nothing was selected; otherwise the
\* pages, unless an error is thrown on the way: the catch block of the function then
\* returns the "Error Generating Report" embed alone
Embeds(processed, us) ==
  IF Len(processed) = 0 THEN <<NoStreamsEmbed>>
  ELSE IF ~PageCountDeclared THEN <<ErrorEmbed>>
  ELSE Paginate(AllStreamEntries(us, UserKeys(processed, 1, <<>>), 1), 1, NoPage)

ReportOf(r, processed) ==
  [r EXCEPT !.pc = "done",
            !.processedStreams = processed,
            !.userStreams = UserStreams(processed, r.startTime, r.endTime),
            !.embeds = Embeds(processed, UserStreams(processed, r.startTime, r.endTime))]

\* streamActivities.length
RECURSIVE FoundCount(_, _, _, _)
FoundCount(st, k, startTime, endTime) ==
  IF k > Len(UserOrder) THEN 0
  ELSE Len(FindOverlapping(st[UserOrder[k]], 1, startTime, endTime)) + FoundCount(st, k + 1, startTime, endTime)

generateReport(st, r) ==
  [ReportOf(r, SortNewestFirst(ProcessAll(st, 1, r.startTime, r.endTime), 1, <<>>))
     EXCEPT !.found = FoundCount(st, 1, r.startTime, r.endTime)]

\* what the find of a report returns of the collection: each aggregate once, or the
\* aggregate of the first user a second time
Returned(st, twice) == IF twice THEN [st EXCEPT ![UserOrder[1]] = @ \o @] ELSE st

\* the instants of the sessions a report is asked about:
\* 09:30, 10:50, 10:59:30.500, 11:10, 12:30 of the day
HourMs == 60 * MsPerMinute
ReportInstants ==
  <<9 * HourMs + 30 * MsPerMinute, 10 * HourMs + 50 * MsPerMinute,
    10 * HourMs + 59 * MsPerMinute + 30500, 11 * HourMs + 10 * MsPerMinute,
    12 * HourMs + 30 * MsPerMinute>>

\* two adjacent periods: 10:00 - 11:00 and 11:00 - 12:00
ReportWindows == {<<10 * HourMs, 11 * HourMs>>, <<11 * HourMs, 12 * HourMs>>}

\* the stores the tracker leaves under one key when it opens at most n more sessions at
\* the instants from the k-th on, closing them by endStreamSession or markStreamAsInterrupted
RECURSIVE Histories(_, _, _), Opened(_, _, _)
Histories(ds, k, n) ==
  {ds} \cup
    IF n = 0 THEN {}
    ELSE UNION {Opened(startStreamSession(ds, ReportInstants[i], "A").docs, i, n) :
                  i \in k..Len(ReportInstants)}

Opened(o, i, n) ==
  {o} \cup
    UNION {Histories(endStreamSession(o, ReportInstants[j]).docs, j, n - 1)
             \cup Histories(markStreamAsInterrupted(o, ReportInstants[j]).docs, j, n - 1) :
             j \in i..Len(ReportInstants)}

\* the first user has up to MaxSessions sessions, the others at most one late session
ReportStores ==
  {[u \in Users |-> IF u = UserOrder[1] THEN first ELSE others[u]] :
     first \in Histories(<<>>, 1, MaxSessions),
     others \in [Users \ {UserOrder[1]} -> Histories(<<>>, Len(ReportInstants) - 1, 1)]}

InitReport ==
  /\ docs = <<>>
  /\ now = StartMs
  /\ ticks = 0
  /\ last = NoCall
  /\ closedBy = <<>>
  /\ tasks = <<>>
  /\ base = <<>>
  /\ store \in ReportStores
  /\ presence = [u \in Users |-> NoVoice]
  /\ storeDown = {}
  /\ sink = "ok"
  /\ rec = [NotStarted EXCEPT !.pc = "idle"]
  /\ notices = <<>>
  /\ \E w \in ReportWindows : report = NewReport(w[1], w[2])
  /\ NoScheduler

\* the report is generated
GenerateReport ==
  /\ report.pc = "query"
  /\ \E twice \in BOOLEAN : report' = generateReport(Returned(store, twice), report)
  /\ UNCHANGED <<docs, now, ticks, last, closedBy, tasks, base, store, presence, storeDown, sink, rec, notices, proc, guilds, sent, conn>>

NextReport == GenerateReport

SpecReport == InitReport /\ [][NextReport]_vars

----------------------------------------------------------------------------
\* The VoiceStateUpdate handler of index.js: one presence event of one user, handled from
\* its first await to its last with no other handler in between. A store call of the
\* handling may be rejected (the connection is lost, the operation times out).

\* the store calls of the longest path, a channel switch: endStreamSession 2, its
\* notification 3, startStreamSession 4, its notification 4
MaxCalls == 2 + 3 + 4 + 4
\* the voice states of a member: in no channel, streaming in A, streaming in B
VoiceStates ==
  {NoVoice,
   [NoVoice EXCEPT !.channelId = "A", !.streaming = TRUE],
   [NoVoice EXCEPT !.channelId = "B", !.streaming = TRUE]}

\* the handling of an event: the documents of the user's key, the notices sent, the store
\* calls left until the one that is rejected (0: none is), an error on its way to a catch
\* block, an error caught by the handler, the sessionDetails the last tracker call returned
Handling(ds, ns, n) ==
  [docs |-> ds, notices |-> ns, calls |-> n, threw |-> FALSE, caught |-> FALSE, ret |-> <<>>]

\* the calls left after one more store call
CallsAfter(n) == IF n <= 1 THEN 0 ELSE n - 1

\* a tracker call of which the n-th store call is rejected: the catch block of the call
\* logs the error and rethrows it
RECURSIVE RunCalls(_, _, _, _), RunCallsNext(_, _, _)
RunCalls(ds, t, k, n) ==
  IF Done(k) THEN [docs |-> ds, task |-> k, calls |-> n]
  ELSE IF n = 1 THEN [docs |-> ds, task |-> [k EXCEPT !.err = TRUE, !.pc = "done"], calls |-> 0]
  ELSE RunCallsNext(Step(ds, t, k), t, n)

RunCallsNext(r, t, n) == RunCalls(r.docs, t, r.task, CallsAfter(n))

Awaited(h, r) ==
  [h EXCEPT !.docs = r.docs, !.calls = r.calls, !.threw = r.task.err, !.ret = r.task.ret]

\* await of tracker call k in the handler
Await(h, t, k) == IF h.threw THEN h ELSE Awaited(h, RunCalls(h.docs, t, k, h.calls))

\* the "stream started" message of sendStreamNotification
StartedNotice(u, channelId) ==
  [userId |-> u, channelId |-> channelId, isStarting |-> TRUE, duration |-> 0, interrupted |-> FALSE]

\* isStreamTrackingEnabled and getNotificationChannel, one findOne each: a rejected findOne
\* of the first is answered "enabled", of the second "no channel". With sink "off" tracking
\* is disabled and no channel is configured.
AfterConfig(h, snk) ==
  IF snk = "off" THEN [h EXCEPT !.calls = CallsAfter(@)]
  ELSE [h EXCEPT !.calls = CallsAfter(CallsAfter(@))]

\* const notificationChannelId = await getNotificationChannel(guild.id) is a channel
ChannelKnown(h, snk) == snk # "off" /\ h.calls # 2

\* latestStream.notificationMessageId = messageId; latestStream.notificationChannelId = channelId
SetNotified(doc) == [doc EXCEPT !.streams[Len(doc.streams)].notified = TRUE]

\* saveStreamNotificationId: findOne, the ids are set on an active latest stream and the
\* document is saved; an error is caught and answered false
SaveNotificationId(h) ==
  IF h.calls = 1 THEN [h EXCEPT !.calls = 0]
  ELSE IF ~HasOpen(FindOne(h.docs)) THEN [h EXCEPT !.calls = CallsAfter(@)]
  ELSE IF h.calls = 2 THEN [h EXCEPT !.calls = 0]
  ELSE [h EXCEPT !.docs = Save(h.docs, FindOne(h.docs)[1], SetNotified(FindOne(h.docs)[1])),
                 !.calls = CallsAfter(CallsAfter(@))]

\* (variant: an error of the send is thrown to the caller)
SendNotificationUncaught(h, snk, notice) ==
  IF h.threw THEN h
  ELSE IF ~ChannelKnown(h, snk) THEN AfterConfig(h, snk)
  ELSE IF snk # "ok" THEN [AfterConfig(h, snk) EXCEPT !.threw = TRUE]
  ELSE IF notice.isStarting
       THEN SaveNotificationId([AfterConfig(h, snk) EXCEPT !.notices = Append(@, notice)])
       ELSE [AfterConfig(h, snk) EXCEPT !.calls = CallsAfter(@), !.notices = Append(@, notice)]

\* sendStreamNotification as the handler awaits it: the two reads of the configuration,
\* then for a start the send and saveStreamNotificationId, for an end getStreamNotificationId
\* (one findOne) and the reply or send; every error is caught and logged in the function
SendNotification(h, snk, notice) ==
  IF h.threw THEN h
  ELSE IF ~ChannelKnown(h, snk) THEN AfterConfig(h, snk)
  ELSE IF notice.isStarting
       THEN IF snk = "ok"
            THEN SaveNotificationId([AfterConfig(h, snk) EXCEPT !.notices = Append(@, notice)])
            ELSE AfterConfig(h, snk)
       ELSE [AfterConfig(h, snk) EXCEPT !.calls = CallsAfter(@),
                                        !.notices = IF snk = "ok" THEN Append(@, notice) ELSE @]

\* "User started streaming in a voice channel"
StartBranch(h, t, u, channelId, snk) ==
  SendNotification(Await(h, t, NewTask("start", channelId)), snk, StartedNotice(u, channelId))

\* if (result && result.sessionDetails) await sendStreamNotification(..., false, result.sessionDetails.duration)
NotifyEnded(h, u, channelId, snk) ==
  IF h.threw \/ h.ret = <<>> THEN h
  ELSE SendNotification(h, snk, EndedNotice([userId |-> u, channelId |-> channelId], h.ret[1].duration, FALSE))

\* "User stopped streaming in a voice channel"
StopBranch(h, t, u, channelId, snk) ==
  NotifyEnded(Await(h, t, NewTask("end", "A")), u, channelId, snk)

\* "User switched voice channels while streaming"
SwitchBranch(h, t, u, old, new, snk) ==
  StartBranch(StopBranch(h, t, u, old.channelId, snk), t, u, new.channelId, snk)

\* (variant: the last branch does not compare the channels)
BranchAnyChannel(old, new) ==
  IF ~old.streaming /\ new.streaming THEN "start"
  ELSE IF old.streaming /\ ~new.streaming THEN "stop"
  ELSE IF old.streaming /\ old.channelId # "none" /\ new.channelId = "none" THEN "left"
  ELSE IF old.streaming /\ new.streaming THEN "switch"
  ELSE "none"

\* the branch the handler takes for the voice states old and new
Branch(old, new) ==
  IF ~old.streaming /\ new.streaming THEN "start"
  ELSE IF old.streaming /\ ~new.streaming THEN "stop"
  ELSE IF old.streaming /\ old.channelId # "none" /\ new.channelId = "none" THEN "left"
  ELSE IF old.streaming /\ new.streaming /\ old.channelId # new.channelId THEN "switch"
  ELSE "none"

Body(h, t, u, old, new, snk) ==
  CASE Branch(old, new) = "start"  -> StartBranch(h, t, u, new.channelId, snk)
    [] Branch(old, new) = "stop"   -> StopBranch(h, t, u, old.channelId, snk)
    [] Branch(old, new) = "left"   -> StopBranch(h, t, u, old.channelId, snk)
    [] Branch(old, new) = "switch" -> SwitchBranch(h, t, u, old, new, snk)
    [] OTHER                       -> h

\* (variant: the handler has no catch block)
Uncaught(h) == h

\* try { ... } catch (error) { logger.error('Error handling voice state update', ...) }
TryCatch(h) == [h EXCEPT !.caught = h.threw, !.threw = FALSE]

\* the handler for the event that takes user u from voice state old to new, when the n-th
\* store call of the handling is rejected (0: none)
OnVoiceStateUpdate(ds, ns, t, u, old, new, snk, n) ==
  TryCatch(Body(Handling(ds, ns, n), t, u, old, new, snk))

\* the sessions user u may have in a run: the first user MaxSessions, the others one,
\* which is in channel A
SessionCap(u) == IF u = UserOrder[1] THEN MaxSessions ELSE 1

\* "Skip bot users": if (oldState.member?.user?.bot || newState.member?.user?.bot) return
SkipBots(bot, ds, ns, t, u, old, new, snk) ==
  IF bot THEN Handling(ds, ns, 0) ELSE OnVoiceStateUpdate(ds, ns, t, u, old, new, snk, 0)

\* the bot has started at 10:00 with an empty store; nobody is streaming
InitHandler ==
  /\ docs = <<>>
  /\ now = 10 * HourMs
  /\ ticks = 0
  /\ last = NoCall
  /\ closedBy = <<>>
  /\ tasks = <<>>
  /\ base = <<>>
  /\ store = [u \in Users |-> <<>>]
  /\ presence = [u \in Users |-> NoVoice]
  /\ storeDown = {}
  /\ sink \in {"ok", "off", "fails"}
  /\ rec = [NotStarted EXCEPT !.pc = "idle"]
  /\ notices = <<>>
  /\ report = [NewReport(0, 0) EXCEPT !.pc = "idle"]
  /\ NoScheduler

\* Discord reports a new voice state of a member and the handler runs; an error that the
\* handler does not catch is an unhandled rejection, which ends the process
VoiceStateUpdate ==
  /\ proc.alive
  /\ report.pc = "idle"
  /\ \E u \in Users, new \in VoiceStates, n \in 0..MaxCalls :
       /\ new # presence[u]
       /\ new.streaming => TotalStreams(store[u]) < SessionCap(u)
       /\ u # UserOrder[1] => new.channelId # "B"
       /\ n > 0 => u \in storeDown /\ ~proc.dropped
       /\ \E h \in {OnVoiceStateUpdate(store[u], notices, now, u, presence[u], new, sink, n)} :
            /\ n > 0 => h.calls = 0
            /\ store' = [store EXCEPT ![u] = h.docs]
            /\ notices' = h.notices
            /\ presence' = [presence EXCEPT ![u] = new]
            /\ proc' = [alive |-> ~h.threw,
                        dropped |-> proc.dropped \/ h.caught \/ h.threw,
                        since |-> IF h.caught \/ h.threw THEN {}
                                  ELSE IF proc.dropped THEN proc.since \cup {u} ELSE {}]
  /\ UNCHANGED <<docs, now, ticks, last, closedBy, tasks, base, storeDown, sink, rec, report, guilds, sent, conn>>

\* the clock advances to 10:30, and then by a quarter of an hour at a time
TickQuarter ==
  /\ ticks < MaxTicks
  /\ report.pc = "idle"
  /\ now' = now + (IF ticks = 0 THEN 30 ELSE 15) * MsPerMinute
  /\ ticks' = ticks + 1
  /\ UNCHANGED <<docs, last, closedBy, tasks, base>>
  /\ UNCHANGED rvars

\* generateHourlyReport(guildId) with no start time: startTime = new Date() with
\* setHours(getHours() - 1), endTime = new Date(). A run is followed up to its first report.
HourlyReport ==
  /\ proc.alive
  /\ report.pc = "idle"
  /\ report' = generateReport(store, NewReport(now - HourMs, now))
  /\ UNCHANGED <<docs, now, ticks, last, closedBy, tasks, base, store, presence, storeDown, sink, rec, notices,
                 proc, guilds, sent, conn>>

NextHandler == VoiceStateUpdate \/ TickQuarter \/ HourlyReport

\* presence events handled one after the other with a store that answers every call, and
\* a report on request
SpecHandler == InitHandler /\ [][NextHandler]_vars

\* the store may reject calls for the key of the first user; notifications are sent
InitHandlerFaults ==
  /\ docs = <<>>
  /\ now = 10 * HourMs
  /\ ticks = 0
  /\ last = NoCall
  /\ closedBy = <<>>
  /\ tasks = <<>>
  /\ base = <<>>
  /\ store = [u \in Users |-> <<>>]
  /\ presence = [u \in Users |-> NoVoice]
  /\ storeDown = {UserOrder[1]}
  /\ sink = "ok"
  /\ rec = [NotStarted EXCEPT !.pc = "idle"]
  /\ notices = <<>>
  /\ report = [NewReport(0, 0) EXCEPT !.pc = "idle"]
  /\ NoScheduler

NextHandlerFaults == VoiceStateUpdate

\* presence events handled one after the other with store calls that may be rejected
SpecHandlerFaults == InitHandlerFaults /\ [][NextHandlerFaults]_vars

----------------------------------------------------------------------------
\* The scheduled reports of index.js: two cron tasks, '0 * * * *' and '0 0 * * *', with no
\* timezone option, so that they fire by the clock of the process (taken as UTC). The
\* tasks of one instant are run one after the other, and the find of a cycle is answered.

\* the guilds whose configuration is stored, in the order of the collection
GuildOrder == <<"g1", "g2">>

\* hours the scheduler is followed for
MaxHours == 8

\* the offsets from UTC of the timezones a guild may configure: UTC-5, UTC, UTC+5:30
TZOffsets == {0 - 5 * HourMs, 0, 5 * HourMs + 30 * MsPerMinute}

\* what happens when a report is sent to the guild: it is sent; the guild or the channel
\* is not in the cache of the client; the generation fails; channel.send rejects
Outcomes == {"ok", "uncached", "generate", "send"}

\* a guild: of its GuildConfig whether notificationChannelId is set, hourlyReportEnabled,
\* dailyReportEnabled and the offset of timezone; and the outcome of sending to it
GuildEnvs ==
  [channel : BOOLEAN, hourly : BOOLEAN, daily : BOOLEAN, offset : TZOffsets, outcome : Outcomes]

\* new Date(now.toLocaleString('en-US', { timeZone: timezone })): the wall clock of the
\* timezone at instant t, without milliseconds, read as a time of the process
WallClock(t, offset) == ((t + offset) \div 1000) * 1000

\* setHours(0, 0, 0, 0) in the time of the process
StartOfDay(t) == (t \div DayMs) * DayMs

\* startTime and endTime of generateDailyReport: setDate(getDate() - 1), then
\* setHours(0, 0, 0, 0) and setHours(23, 59, 59, 999)
DailyWindow(t, offset) ==
  [startTime |-> StartOfDay(WallClock(t, offset) - DayMs),
   endTime   |-> StartOfDay(WallClock(t, offset) - DayMs) + DayMs - 1]

\* startTime and endTime of generateHourlyReport with no start time
HourlyWindow(t) == [startTime |-> t - HourMs, endTime |-> t]

ReportWindow(type, t, g) == IF type = "hourly" THEN HourlyWindow(t) ELSE DailyWindow(t, g.offset)

\* (variant: the query asks for a notification channel only)
MatchesChannelOnly(g, type) == g.channel

\* query = { notificationChannelId: { $ne: null } } with hourlyReportEnabled = true or
\* dailyReportEnabled = true
Matches(g, type) ==
  g.channel /\ (IF type = "hourly" THEN g.hourly ELSE g.daily)

\* GuildConfig.find(query): the guilds found, in the order of the collection
RECURSIVE Find(_, _, _)
Find(gs, type, i) ==
  IF i > Len(gs) THEN <<>>
  ELSE (IF Matches(gs[i], type) THEN <<i>> ELSE <<>>) \o Find(gs, type, i + 1)

\* (variant: a generation that fails returns no embed)
ReportSentNoEmbed(st, type, t, i, g) ==
  [guild |-> i,
   startTime |-> ReportWindow(type, t, g).startTime,
   endTime |-> ReportWindow(type, t, g).endTime,
   embeds |-> IF g.outcome = "generate" THEN <<>>
              ELSE generateReport(st, NewReport(ReportWindow(type, t, g).startTime,
                                                ReportWindow(type, t, g).endTime)).embeds]

\* the report that is sent to guild i: the embeds of the generation, or the error embed
\* that the catch block of the generation returns
ReportSent(st, type, t, i, g) ==
  [guild |-> i,
   startTime |-> ReportWindow(type, t, g).startTime,
   endTime |-> ReportWindow(type, t, g).endTime,
   embeds |-> IF g.outcome = "generate" THEN <<ErrorEmbed>>
              ELSE generateReport(st, NewReport(ReportWindow(type, t, g).startTime,
                                                ReportWindow(type, t, g).endTime)).embeds]

\* (variant: an error of channel.send is thrown to the loop)
SendReportToGuildUncaught(c, st, type, t, i, g) ==
  IF g.outcome = "uncached" THEN c
  ELSE IF g.outcome = "send" THEN [c EXCEPT !.threw = TRUE]
  ELSE [c EXCEPT !.reports = Append(@, ReportSent(st, type, t, i, g))]

\* sendHourlyReportToGuild / sendDailyReportToGuild: nothing is sent when the guild or the
\* channel is not in the cache; an error is caught and logged
SendReportToGuild(c, st, type, t, i, g) ==
  IF g.outcome \in {"uncached", "send"} THEN c
  ELSE [c EXCEPT !.reports = Append(@, ReportSent(st, type, t, i, g))]

\* for (const guildConfig of guilds), left when an error is thrown
RECURSIVE SendAll(_, _, _, _, _, _, _)
SendAll(c, found, k, gs, st, type, t) ==
  IF k > Len(found) \/ c.threw THEN c
  ELSE SendAll(SendReportToGuild(c, st, type, t, found[k], gs[found[k]]), found, k + 1, gs, st, type, t)

\* sendScheduledReports(reportType) at instant t: the cycle and the reports it has sent
sendScheduledReports(gs, st, type, t) ==
  [type |-> type, at |-> t,
   reports |-> SendAll([reports |-> <<>>, threw |-> FALSE], Find(gs, type, 1), 1, gs, st, type, t).reports]

\* the cron task of the type has run at this instant
Ran(type) == \E k \in 1..Len(sent) : sent[k].type = type /\ sent[k].at = now

\* '0 * * * *' and '0 0 * * *' by the clock of the process
StartOfHour(t) == t % HourMs = 0
Midnight(t) == t % DayMs = 0

\* the bot runs since 22:00 with an empty store
InitScheduler ==
  /\ docs = <<>>
  /\ now = 22 * HourMs
  /\ ticks = 0
  /\ last = NoCall
  /\ closedBy = <<>>
  /\ tasks = <<>>
  /\ base = <<>>
  /\ store = [u \in Users |-> <<>>]
  /\ presence = [u \in Users |-> NoVoice]
  /\ storeDown = {}
  /\ sink = "ok"
  /\ rec = [NotStarted EXCEPT !.pc = "idle"]
  /\ notices = <<>>
  /\ report = [NewReport(0, 0) EXCEPT !.pc = "idle"]
  /\ proc = Running
  /\ guilds \in [1..Len(GuildOrder) -> GuildEnvs]
  /\ sent = <<>>
  /\ conn = Connected

\* cron.schedule('0 * * * *', ...)
HourlyCron ==
  /\ StartOfHour(now)
  /\ ~Ran("hourly")
  /\ sent' = Append(sent, sendScheduledReports(guilds, store, "hourly", now))
  /\ UNCHANGED <<docs, now, ticks, last, closedBy, tasks, base, store, presence, storeDown, sink, rec, notices,
                 report, proc, guilds, conn>>

\* cron.schedule('0 0 * * *', ...)
DailyCron ==
  /\ Midnight(now)
  /\ ~Ran("daily")
  /\ sent' = Append(sent, sendScheduledReports(guilds, store, "daily", now))
  /\ UNCHANGED <<docs, now, ticks, last, closedBy, tasks, base, store, presence, storeDown, sink, rec, notices,
                 report, proc, guilds, conn>>

\* an hour passes, once the tasks of the instant have run
TickHour ==
  /\ ticks < MaxHours
  /\ StartOfHour(now) => Ran("hourly")
  /\ Midnight(now) => Ran("daily")
  /\ now' = now + HourMs
  /\ ticks' = ticks + 1
  /\ UNCHANGED <<docs, last, closedBy, tasks, base, store, presence, storeDown, sink, rec, notices,
                 report, proc, guilds, sent, conn>>

NextScheduler == HourlyCron \/ DailyCron \/ TickHour

SpecScheduler == InitScheduler /\ [][NextScheduler]_vars

----------------------------------------------------------------------------
\* Properties of the tracker, calls one after the other (Spec)

Agg == docs[1]
AggNext == docs'[1]
HadOpen == Len(docs) > 0 /\ Len(docs[1].streams) > 0 /\ Last(docs[1].streams).endTime = Null
Closed(s) == s.endTime # Null
WindowsOf(d) == <<d.currentDailyTotal, d.currentWeeklyTotal, d.currentMonthlyTotal>>
KeysAt(t) == <<getTimePeriods(t).day, getTimePeriods(t).week, getTimePeriods(t).month>>
\* the session that the step has closed, as stored
JustClosed == AggNext.streams[Len(Agg.streams)]

\* C1: after every startSession / endSession / markInterrupted call (each completing
\* before the next begins) the persisted aggregate holds at most one session without endTime.
C1_AtMostOneOpen == Len(docs) <= 1 /\ OpenCount(docs) <= 1

\* a start while a session was open has completed
C1_Witness ==
  /\ last.op = "start"
  /\ last.ret # <<>>
  /\ Len(Streams(docs)) >= 2
  /\ OpenCount(docs) = 1

\* C2: when tracker operations on the same key are in flight at the same time, the
\* persisted aggregate after they finish is the one that results from applying them one
\* after the other in the order their events were observed; two concurrent startSession
\* calls never leave two sessions open.
C2_AsInOrder ==
  (\A i \in 1..Len(tasks) : Done(tasks[i])) =>
    /\ Shape(docs) = Shape(InOrder(base, now, tasks, 1))
    /\ \A d \in 1..Len(docs) :
         Cardinality({j \in 1..Len(docs[d].streams) : docs[d].streams[j].endTime = Null}) <= 1

WindowAdded(w, w2, key, d) ==
  /\ w2.key = key
  /\ w.key = key => w2.totalMinutes = w.totalMinutes + d /\ w2.streamCount = w.streamCount + 1
  /\ w.key # key => w2.totalMinutes = d /\ w2.streamCount = 1

\* C4: startSession while a session is open closes it as a normal stop (endTime set,
\* interrupted = false, duration and count added to the lifetime and rolling totals) and
\* appends exactly one open session: the list grows by one and one session is open.
C4_StartWhileOpen ==
  [][last'.op = "start" /\ HadOpen =>
       /\ Len(docs') = 1
       /\ Len(AggNext.streams) = Len(Agg.streams) + 1
       /\ OpenCount(docs') = 1
       /\ Last(AggNext.streams).endTime = Null
       /\ Last(AggNext.streams).startTime = now
       /\ JustClosed.endTime = now
       /\ JustClosed.interrupted = FALSE
       /\ JustClosed.duration * MsPerMinute <= now - JustClosed.startTime
       /\ now - JustClosed.startTime < (JustClosed.duration + 1) * MsPerMinute
       /\ AggNext.totalStreams = Agg.totalStreams + 1
       /\ AggNext.totalStreamTime = Agg.totalStreamTime + JustClosed.duration
       /\ \A x \in 1..3 :
            WindowAdded(WindowsOf(Agg)[x], WindowsOf(AggNext)[x], KeysAt(now)[x], JustClosed.duration)
    ]_vars

\* a start has closed a session of at least a minute and opened the next one
C4_Witness ==
  /\ last.op = "start"
  /\ last.ret # <<>>
  /\ last.ret[1].duration >= 1
  /\ Len(Streams(docs)) >= 2
  /\ Agg.totalStreamTime >= 1

\* C5: endSession on a key with no aggregate, an empty session list or a closed latest
\* session reports no closed session and leaves the stored aggregate unchanged.
C5_EndNoOp ==
  [][last'.op = "end" /\ ~HadOpen => docs' = docs /\ last'.ret = <<>>]_vars

\* a stop has arrived for a session that an earlier stop had closed
C5_Witness ==
  /\ last.op = "end"
  /\ last.ret = <<>>
  /\ Len(Streams(docs)) >= 1
  /\ Closed(Last(Streams(docs)))
  /\ Agg.totalStreams = 1

\* C6: a session started at T0 and closed by endSession at T1 stores
\* durationMinutes = floor((T1 - T0) / 60000).
C6_DurationFloor ==
  \A i \in 1..Len(Streams(docs)) :
    closedBy[i] = "end" =>
      LET s == Streams(docs)[i]
      IN /\ s.startTime <= s.endTime
         /\ s.duration * MsPerMinute <= s.endTime - s.startTime
         /\ s.endTime - s.startTime < (s.duration + 1) * MsPerMinute

\* endSession has closed a session whose span is not a whole number of minutes
C6_Witness ==
  \E i \in 1..Len(Streams(docs)) :
    /\ closedBy[i] = "end"
    /\ Streams(docs)[i].duration >= 1
    /\ (Streams(docs)[i].endTime - Streams(docs)[i].startTime) % MsPerMinute > MsPerMinute \div 2

\* C7: an endSession that closes a session of d minutes adds 1 to totalSessions and d to
\* totalMinutes, and 1 and d to every rolling window whose periodKey is the current period.
C7_EndAddsTotals ==
  [][last'.op = "end" /\ HadOpen =>
       /\ AggNext.totalStreams = Agg.totalStreams + 1
       /\ AggNext.totalStreamTime = Agg.totalStreamTime + JustClosed.duration
       /\ \A x \in 1..3 :
            WindowsOf(Agg)[x].key = KeysAt(now)[x] =>
              /\ WindowsOf(AggNext)[x].streamCount = WindowsOf(Agg)[x].streamCount + 1
              /\ WindowsOf(AggNext)[x].totalMinutes = WindowsOf(Agg)[x].totalMinutes + JustClosed.duration
              /\ WindowsOf(AggNext)[x].key = KeysAt(now)[x]
    ]_vars

\* endSession has added a session of at least a minute to a daily window that held one already
C7_Witness ==
  /\ last.op = "end"
  /\ last.ret # <<>>
  /\ last.ret[1].duration >= 1
  /\ Agg.currentDailyTotal.streamCount = 2
  /\ Agg.currentDailyTotal.key = getTimePeriods(now).day

\* C8: when endSession closes a session and a rolling window's periodKey differs from the
\* close-time period, the window becomes {close-time period, the session's duration, 1}.
C8_WindowReset ==
  [][last'.op = "end" /\ HadOpen =>
       \A x \in 1..3 :
         WindowsOf(Agg)[x].key # KeysAt(now)[x] =>
           WindowsOf(AggNext)[x] =
             [key |-> KeysAt(now)[x], totalMinutes |-> JustClosed.duration, streamCount |-> 1]
    ]_vars

\* endSession has reset a daily window that held the minutes of an earlier day
C8_Witness ==
  /\ last.op = "end"
  /\ last.ret # <<>>
  /\ last.ret[1].duration >= 1
  /\ Agg.totalStreams = 2
  /\ Agg.totalStreamTime > last.ret[1].duration
  /\ Agg.currentDailyTotal =
       [key |-> getTimePeriods(now).day, totalMinutes |-> last.ret[1].duration, streamCount |-> 1]

\* C9: a markInterrupted that closes an open session leaves lifetime totalMinutes and every
\* rolling window's totalMinutes unchanged and adds 1 to totalSessions and to every
\* window's sessionCount.
C9_InterruptCountsOnly ==
  [][last'.op = "interrupt" /\ HadOpen =>
       /\ AggNext.totalStreamTime = Agg.totalStreamTime
       /\ AggNext.totalStreams = Agg.totalStreams + 1
       /\ \A x \in 1..3 :
            /\ WindowsOf(AggNext)[x].totalMinutes = WindowsOf(Agg)[x].totalMinutes
            /\ WindowsOf(AggNext)[x].streamCount = WindowsOf(Agg)[x].streamCount + 1
    ]_vars

\* markInterrupted has closed a session that had been open for at least a minute
C9_Witness ==
  /\ last.op = "interrupt"
  /\ last.ret # <<>>
  /\ last.ret[1].duration >= 1
  /\ last.ret[1].interrupted

\* C30: after a session is closed, by endSession or by markInterrupted, the periodKey of
\* each rolling window is the period (day, week, month) of the close time: a window of an
\* earlier period is reset before the session is counted.
C30_WindowKeyAtClose ==
  [][last'.op \in {"end", "interrupt"} /\ HadOpen =>
       \A x \in 1..3 : WindowsOf(AggNext)[x].key = KeysAt(now)[x]
    ]_vars

C11_SwitchTwoSessions ==
  [][last'.op = "switch" /\ HadOpen =>
       /\ Len(AggNext.streams) = Len(Agg.streams) + 1
       /\ JustClosed.channelId = Last(Agg.streams).channelId
       /\ JustClosed.startTime = Last(Agg.streams).startTime
       /\ JustClosed.endTime = now
       /\ JustClosed.interrupted = FALSE
       /\ Last(AggNext.streams).endTime = Null
       /\ Last(AggNext.streams).channelId = last'.ch
       /\ Last(AggNext.streams).interrupted = FALSE
       /\ Last(AggNext.streams).startTime >= JustClosed.endTime
       /\ OpenCount(docs') = 1
    ]_vars

\* a switch from channel A to channel B has closed one session and opened the next
C11_Witness ==
  /\ last.op = "switch"
  /\ last.ch = "B"
  /\ Len(Streams(docs)) = 2
  /\ Streams(docs)[1].channelId = "A"
  /\ Closed(Streams(docs)[1]) /\ ~Streams(docs)[1].interrupted
  /\ Streams(docs)[2].channelId = "B"
  /\ ~Closed(Streams(docs)[2])

----------------------------------------------------------------------------
\* Properties of crash recovery (SpecRecovery, SpecRecoveryFaults)

\* the active stream the loop is at, and what Discord answers about its user
Entry == rec.listed[rec.next]
EntryPresence == presence[Entry.userId]
\* the step is an iteration of the loop that has returned
Reconciled == rec.pc = "loop" /\ rec'.next = rec.next + 1
\* the session of a listed stream, as stored
StoredSession(st, e) == Last(st[e.userId][1].streams)
\* Discord reports the member streaming in channel c
StreamingIn(pr, c) == pr.member /\ pr.streaming /\ pr.channelId = c
StreamingSomewhere(pr) == pr.member /\ pr.streaming /\ pr.channelId # "none"
InterruptedAt(s, t) == s.endTime = t /\ s.interrupted

\* C12: an open session recorded with channel A whose member Discord reports streaming in
\* another channel B is closed by recovery with interrupted = true, never left open.
C12_ChannelSwitchDetected ==
  /\ [][Reconciled /\ StreamingSomewhere(EntryPresence) /\ ~StreamingIn(EntryPresence, Entry.channelId) =>
          /\ InterruptedAt(StoredSession(store', Entry), now)
          /\ StoredSession(store', Entry).channelId = Entry.channelId
          /\ StoredSession(store', Entry).startTime = Entry.startTime]_vars
  /\ [](rec.pc = "done" =>
          \A i \in 1..Len(rec.listed) :
            StreamingSomewhere(presence[rec.listed[i].userId])
              /\ ~StreamingIn(presence[rec.listed[i].userId], rec.listed[i].channelId) =>
                /\ Closed(StoredSession(store, rec.listed[i]))
                /\ StoredSession(store, rec.listed[i]).interrupted)

\* recovery has interrupted a session recorded in A of a resolved member streaming in B
C12_Witness ==
  /\ rec.pc = "done"
  /\ \E i \in 1..Len(rec.listed) :
       /\ rec.listed[i].channelId = "A"
       /\ presence[rec.listed[i].userId] = [NoVoice EXCEPT !.channelId = "B", !.streaming = TRUE]
       /\ StoredSession(store, rec.listed[i]).interrupted
       /\ StoredSession(store, rec.listed[i]).channelId = "A"
       /\ StoredSession(store, rec.listed[i]).endTime >= StartMs

\* Discord does not report the member streaming: unknown guild, user or member not
\* resolved, not in a voice channel, or not streaming
NotStreaming(pr) == ~pr.guild \/ ~pr.user \/ ~pr.member \/ pr.channelId = "none" \/ ~pr.streaming

\* C13: recovery closes every open session whose guild is unknown, whose user or member
\* cannot be resolved, or whose member is not streaming, with interrupted = true and
\* endTime = the time of recovery.
C13_StaleInterrupted ==
  /\ [][Reconciled /\ NotStreaming(EntryPresence) =>
          /\ InterruptedAt(StoredSession(store', Entry), now)
          /\ StoredSession(store', Entry).startTime = Entry.startTime]_vars
  /\ [](rec.pc = "done" =>
          \A i \in 1..Len(rec.listed) :
            NotStreaming(presence[rec.listed[i].userId]) =>
              /\ Closed(StoredSession(store, rec.listed[i]))
              /\ StoredSession(store, rec.listed[i]).interrupted
              /\ StoredSession(store, rec.listed[i]).endTime >= StartMs)

\* recovery has interrupted the sessions of a user of an unknown guild and of a user
\* whose member could not be resolved
C13_Witness ==
  /\ rec.pc = "done"
  /\ Len(rec.listed) = 2
  /\ ~presence[rec.listed[1].userId].guild
  /\ ~presence[rec.listed[2].userId].member
  /\ \A i \in 1..2 : StoredSession(store, rec.listed[i]).interrupted
  /\ StoredSession(store, rec.listed[2]).endTime > StoredSession(store, rec.listed[1]).endTime

\* the guild is known, the user and the member are resolved, and the member is streaming
\* in the channel recorded on the session
StillLive(pr, e) == pr.guild /\ pr.user /\ StreamingIn(pr, e.channelId)

\* C14: recovery leaves open the session of a member who is streaming in the recorded
\* channel: its aggregate is unchanged and no notification is sent for it; recovery
\* changes only the aggregate of the stream it is examining.
C14_LiveUntouched ==
  /\ [][Reconciled /\ StillLive(EntryPresence, Entry) =>
          /\ store' = store
          /\ notices' = notices
          /\ ~Closed(StoredSession(store', Entry))]_vars
  /\ [][\A u \in Users : store'[u] # store[u] => rec.pc = "loop" /\ Entry.userId = u]_vars
  /\ [](\A i \in 1..Len(notices) :
          \E j \in 1..Len(rec.listed) :
            /\ rec.listed[j].userId = notices[i].userId
            /\ ~StillLive(presence[notices[i].userId], rec.listed[j]))

\* recovery has finished, has interrupted one session and left the live one open
C14_Witness ==
  /\ rec.pc = "done"
  /\ Len(rec.listed) = 2
  /\ StillLive(presence[rec.listed[1].userId], rec.listed[1])
  /\ ~Closed(StoredSession(store, rec.listed[1]))
  /\ StoredSession(store, rec.listed[1]).startTime = rec.listed[1].startTime
  /\ StoredSession(store, rec.listed[2]).interrupted
  /\ Len(notices) = 1

C16_AllExamined ==
  rec.pc = "done" =>
    \A i \in 1..Len(rec.listed) : i < rec.next \/ (rec.aborted /\ i = rec.next)

----------------------------------------------------------------------------
\* Properties of the reports (SpecReport)

\* the sessions stored for user u
SessionsOf(u) == IF Len(store[u]) = 0 THEN <<>> ELSE store[u][1].streams
InWindow(t) == report.startTime <= t /\ t <= report.endTime
\* the three ways a session overlaps the window of the report
StartsInWindow(s) == InWindow(s.startTime)
EndsInWindow(s) == s.endTime # Null /\ InWindow(s.endTime)
SpansWindow(s) == s.startTime <= report.startTime /\ (s.endTime = Null \/ s.endTime >= report.endTime)
\* entry p of the report is session s of user u
IsSession(p, u, s) ==
  p.userId = u /\ p.startTime = s.startTime /\ p.endTime = s.endTime /\ p.channelId = s.channelId
\* entry p of the report has the identity (user, startTime, channelId) of session s of user u
SameIdentity(p, u, s) == p.userId = u /\ p.startTime = s.startTime /\ p.channelId = s.channelId

\* C17: a stored session is among the streams the report selects if and only if it starts
\* in the window, or ends in it, or spans it; a session is identified by its user,
\* startTime and channel.
C17_Selection ==
  report.pc = "done" =>
    /\ \A u \in Users : \A j \in 1..Len(SessionsOf(u)) :
         LET s == SessionsOf(u)[j]
         IN IF StartsInWindow(s) \/ EndsInWindow(s) \/ SpansWindow(s)
            THEN \E i \in 1..Len(report.processedStreams) : SameIdentity(report.processedStreams[i], u, s)
            ELSE \A i \in 1..Len(report.processedStreams) : ~IsSession(report.processedStreams[i], u, s)
    /\ \A i \in 1..Len(report.processedStreams) :
         \E j \in 1..Len(SessionsOf(report.processedStreams[i].userId)) :
           LET s == SessionsOf(report.processedStreams[i].userId)[j]
           IN /\ IsSession(report.processedStreams[i], report.processedStreams[i].userId, s)
              /\ StartsInWindow(s) \/ EndsInWindow(s) \/ SpansWindow(s)

\* a report has selected a session only because it spans the window, and has left out
\* another session of the same user
C17_Witness ==
  /\ report.pc = "done"
  /\ Len(SessionsOf("u1")) = 2
  /\ Len(report.processedStreams) = 1
  /\ report.processedStreams[1].userId = "u1"
  /\ report.processedStreams[1].startTime < report.startTime
  /\ report.processedStreams[1].endTime > report.endTime

\* the stream of the window's clipping rule: from max(start, windowStart) to
\* min(end, windowEnd), the end of an open session being windowEnd; in whole seconds
ClipFrom(s) == IF s.startTime > report.startTime THEN s.startTime ELSE report.startTime
ClipTo(s) == IF s.endTime # Null /\ s.endTime < report.endTime THEN s.endTime ELSE report.endTime
ClipSeconds(s) == IF ClipTo(s) > ClipFrom(s) THEN (ClipTo(s) - ClipFrom(s) + 500) \div 1000 ELSE 0

\* C18: the duration a report attributes to a selected session, closed or open, is the
\* length in seconds of its part inside the window; so it is never more than the window.
C18_Clipped ==
  report.pc = "done" =>
    \A u \in DOMAIN report.userStreams :
      \A i \in 1..Len(report.userStreams[u].streams) :
        /\ report.userStreams[u].streams[i].duration = ClipSeconds(report.userStreams[u].streams[i])
        /\ report.userStreams[u].streams[i].duration * 1000 <= report.endTime - report.startTime

\* C19: for a closed session that straddles the boundary of two adjacent windows, the
\* durations attributed to it in the reports of the two windows add up to end - start.
C19_AdjacentSum ==
  report.pc = "done" =>
    \A w \in ReportWindows :
      w[1] = report.endTime =>
        \A u \in DOMAIN report.userStreams :
          \A i \in 1..Len(report.userStreams[u].streams) :
            LET x == report.userStreams[u].streams[i]
            IN x.endTime # Null /\ report.startTime <= x.startTime /\ x.startTime < w[1]
                 /\ w[1] < x.endTime /\ x.endTime <= w[2] =>
                 (x.duration + DurationSec(x, w[1], w[2])) * 1000 = x.endTime - x.startTime

\* C20: a user's incompleteCount is the number of the user's selected sessions that have
\* no end or are interrupted.
C20_IncompleteCount ==
  report.pc = "done" =>
    \A u \in DOMAIN report.userStreams :
      report.userStreams[u].incompleteCount =
        Cardinality({i \in 1..Len(report.userStreams[u].streams) :
                       \/ report.userStreams[u].streams[i].endTime = Null
                       \/ report.userStreams[u].streams[i].interrupted})

\* the places <<page, field, position>> of the session details on the pages of the report
Places ==
  {<<k, j, n>> \in (1..Len(report.embeds)) \X (1..Len(UserOrder)) \X (1..Len(report.processedStreams)) :
     j <= Len(report.embeds[k].fields) /\ n <= Len(report.embeds[k].fields[j].streams)}
\* the places where selected session p is shown
PlacesOf(p) ==
  {x \in Places :
     /\ report.embeds[x[1]].fields[x[2]].userId = p.userId
     /\ report.embeds[x[1]].fields[x[2]].streams[x[3]].startTime = p.startTime
     /\ report.embeds[x[1]].fields[x[2]].streams[x[3]].channelId = p.channelId}
\* the session details on page k before its field j
OnPageBefore(k, j) == Cardinality({x \in Places : x[1] = k /\ x[2] < j})
OnPage(k) == Cardinality({x \in Places : x[1] = k})

\* C21: the selected sessions are shown on pages of capacity 6: a page ends exactly
\* where the next entry is a user header and the page holds at least 6 session details,
\* no user's sessions are on two pages, and every selected session is on exactly one page.
C21_Pagination ==
  report.pc = "done" /\ Len(report.processedStreams) > 0 =>
    /\ \A k \in 1..Len(report.embeds) : report.embeds[k].kind = "page"
    /\ \A i \in 1..Len(report.processedStreams) : Cardinality(PlacesOf(report.processedStreams[i])) = 1
    /\ \A x \in Places : \A y \in Places :
         report.embeds[x[1]].fields[x[2]].userId = report.embeds[y[1]].fields[y[2]].userId =>
           x[1] = y[1] /\ x[2] = y[2]
    /\ \A k \in 1..Len(report.embeds) :
         /\ k < Len(report.embeds) => OnPage(k) >= MAX_STREAMS_PER_PAGE
         /\ \A j \in 2..Len(report.embeds[k].fields) : OnPageBefore(k, j) < MAX_STREAMS_PER_PAGE

\* no stored session starts in the window of the report, ends in it or spans it
NothingOverlaps ==
  \A u \in Users : \A j \in 1..Len(SessionsOf(u)) :
    ~(StartsInWindow(SessionsOf(u)[j]) \/ EndsInWindow(SessionsOf(u)[j]) \/ SpansWindow(SessionsOf(u)[j]))

\* C22: the report of a window that no session overlaps is exactly one page, which carries
\* the "no streams" marker and has no user entries.
C22_EmptyReport ==
  report.pc = "done" /\ NothingOverlaps =>
    /\ Len(report.embeds) = 1
    /\ report.embeds[1].kind = "no-streams"
    /\ report.embeds[1].fields = <<>>

\* a report has been generated for 11:00 - 12:00 from a store whose sessions had all
\* ended before 11:00
C22_Witness ==
  /\ report.pc = "done"
  /\ NothingOverlaps
  /\ Len(SessionsOf("u1")) = 2
  /\ \A j \in 1..2 : SessionsOf("u1")[j].endTime # Null /\ SessionsOf("u1")[j].endTime < report.startTime
  /\ report.embeds = <<NoStreamsEmbed>>

----------------------------------------------------------------------------
\* Properties of the handler and of the report it feeds (SpecHandler)

\* u1 started streaming at 10:00 and stopped at 10:30, and nothing else is stored
OneHalfHour ==
  /\ store["u2"] = <<>>
  /\ Len(store["u1"]) = 1
  /\ Len(store["u1"][1].streams) = 1
  /\ store["u1"][1].streams[1].startTime = 10 * HourMs
  /\ store["u1"][1].streams[1].endTime = 10 * HourMs + 30 * MsPerMinute

\* C23: after a start event of u1 at 10:00 and a stop event at 10:30, with no other
\* activity, the hourly report generated at 10:45 for [09:45, 10:45] is a normal report
\* that shows u1 with exactly one session of 1800 seconds, not marked incomplete.
C23_EndToEnd ==
  report.pc = "done" /\ report.endTime = 10 * HourMs + 45 * MsPerMinute /\ OneHalfHour =>
    /\ report.startTime = 9 * HourMs + 45 * MsPerMinute
    /\ Len(report.embeds) = 1
    /\ report.embeds[1].kind = "page"
    /\ Len(report.embeds[1].fields) = 1
    /\ report.embeds[1].fields[1].userId = "u1"
    /\ Len(report.embeds[1].fields[1].streams) = 1
    /\ report.embeds[1].fields[1].streams[1].duration = 1800
    /\ ~report.embeds[1].fields[1].streams[1].isIncomplete
    /\ report.userStreams["u1"].streamCount = 1
    /\ report.userStreams["u1"].totalDuration = 1800
    /\ report.userStreams["u1"].incompleteCount = 0

\* what is recorded of the sessions under a key: everything but the ids of the notification message
Recorded(ds) ==
  [i \in 1..Len(ds) |->
     [ds[i] EXCEPT !.streams = [j \in 1..Len(ds[i].streams) |-> [ds[i].streams[j] EXCEPT !.notified = FALSE]]]]

\* C28: a failure of the notification sink never changes the state of the session store:
\* what an event records (sessions, endTime, duration, interrupted flag, totals) is what
\* it records when the notification succeeds.
C28_SinkFailure ==
  [][\A u \in Users :
       presence'[u] # presence[u] =>
         Recorded(store'[u]) =
           Recorded(OnVoiceStateUpdate(store[u], notices, now, u, presence[u], presence'[u], "ok", 0).docs)]_vars

\* with a sink that fails, u1 has streamed in A and is streaming in B, after a switch or
\* after a stop and a start; no notice was delivered
C28_Witness ==
  /\ sink = "fails"
  /\ notices = <<>>
  /\ presence["u1"].streaming /\ presence["u1"].channelId = "B"
  /\ Len(store["u1"]) = 1
  /\ Len(store["u1"][1].streams) = 2
  /\ store["u1"][1].streams[1].endTime # Null
  /\ store["u1"][1].streams[1].channelId = "A"
  /\ store["u1"][1].streams[2].endTime = Null
  /\ store["u1"][1].streams[2].channelId = "B"
  /\ store["u1"][1].totalStreams = 1

----------------------------------------------------------------------------
\* Properties of the handler when store calls are rejected (SpecHandlerFaults)

\* the session store agrees with the voice state of u: an open session in the channel u
\* streams in, none when u does not stream
Tracked(st, u, state) ==
  IF state.streaming
  THEN OpenCount(st[u]) = 1 /\ Last(Streams(st[u])).endTime = Null
         /\ Last(Streams(st[u])).channelId = state.channelId
  ELSE OpenCount(st[u]) = 0

\* C29: a store failure at any store call of the handling of a presence event is caught
\* and the event is dropped: the process keeps running, the aggregate of every key has at
\* most one open session, and the presence events that follow, for the same and for other
\* keys, are handled: after each of them the store agrees with the new voice state.
C29_StoreFailure ==
  /\ [](proc.alive /\ \A u \in Users : Len(store[u]) <= 1 /\ OpenCount(store[u]) <= 1)
  /\ [][proc.dropped => \A u \in Users : presence'[u] # presence[u] => Tracked(store', u, presence'[u])]_vars

\* an event of u1 was dropped; since then events of u1 and of u2 have been handled and
\* both users have an open session
C29_Witness ==
  /\ proc.alive
  /\ proc.dropped
  /\ proc.since = Users
  /\ \A u \in Users : Tracked(store, u, presence[u]) /\ presence[u].streaming

----------------------------------------------------------------------------
\* Properties of the scheduled reports (SpecScheduler)

\* the reports <<cycle, position>> that were sent
Reports == {x \in (1..Len(sent)) \X (1..Len(GuildOrder)) : x[2] <= Len(sent[x[1]].reports)}
ReportAt(x) == sent[x[1]].reports[x[2]]
DailyReports == {x \in Reports : sent[x[1]].type = "daily"}

\* the instant at which the calendar day of instant t begins in the timezone
DayBegins(t, offset) == ((t + offset) \div DayMs) * DayMs - offset

\* C24: the window of a daily report is the previous calendar day of the guild's
\* timezone: it starts at the instant that day began in the timezone and ends with that
\* day's last millisecond, whatever the offset of the timezone and the time of generation,
\* and so covers nothing of the day in progress.
C24_DailyWindow ==
  \A x \in DailyReports :
    /\ ReportAt(x).startTime = DayBegins(sent[x[1]].at, guilds[ReportAt(x).guild].offset) - DayMs
    /\ ReportAt(x).endTime = DayBegins(sent[x[1]].at, guilds[ReportAt(x).guild].offset) - 1

\* C25: the daily report of a guild is sent when it is midnight in the timezone of the
\* guild, so that guilds of different timezones get theirs at different instants.
C25_LocalMidnight ==
  \A x \in DailyReports : (sent[x[1]].at + guilds[ReportAt(x).guild].offset) % DayMs = 0

\* C26: a scheduled report of a type is sent only to guilds whose configuration has a
\* notification channel and the flag of that type enabled.
C26_OnlyEnabled ==
  \A x \in Reports :
    /\ guilds[ReportAt(x).guild].channel
    /\ sent[x[1]].type = "hourly" => guilds[ReportAt(x).guild].hourly
    /\ sent[x[1]].type = "daily" => guilds[ReportAt(x).guild].daily

\* both tasks have run at midnight: g1, with hourly reports only, got the hourly report
\* and g2, with daily reports only, the daily one
C26_Witness ==
  /\ guilds[1].channel /\ guilds[1].hourly /\ ~guilds[1].daily
  /\ guilds[2].channel /\ ~guilds[2].hourly /\ guilds[2].daily
  /\ \E x \in Reports : sent[x[1]].at = DayMs /\ sent[x[1]].type = "hourly" /\ ReportAt(x).guild = 1
  /\ \E x \in Reports : sent[x[1]].at = DayMs /\ sent[x[1]].type = "daily" /\ ReportAt(x).guild = 2

\* guild i is found by the query of the type and a report can be sent to it
Eligible(i, type) == Matches(guilds[i], type) /\ guilds[i].outcome \in {"ok", "generate"}

\* C27: in a cycle, a failure while the report of one guild is generated or sent does not
\* keep the other eligible guilds from getting theirs.
C27_OthersProceed ==
  \A k \in 1..Len(sent) : \A i \in 1..Len(GuildOrder) :
    Eligible(i, sent[k].type) => \E j \in 1..Len(sent[k].reports) : sent[k].reports[j].guild = i

\* in the daily cycle channel.send rejected for g1, which comes first, and g2 got its report
C27_Witness ==
  /\ Matches(guilds[1], "daily") /\ guilds[1].outcome = "send"
  /\ Eligible(2, "daily") /\ guilds[2].outcome = "ok"
  /\ \E k \in 1..Len(sent) :
       /\ sent[k].type = "daily"
       /\ Len(sent[k].reports) = 1
       /\ sent[k].reports[1].guild = 2
       /\ sent[k].reports[1].embeds = <<NoStreamsEmbed>>

----------------------------------------------------------------------------
\* Properties of the lifetime totals

\* the minutes of the closed sessions of a list that are not interrupted
RECURSIVE ClosedMinutes(_, _)
ClosedMinutes(streams, i) ==
  IF i > Len(streams) THEN 0
  ELSE (IF streams[i].endTime # Null /\ ~streams[i].interrupted THEN streams[i].duration ELSE 0)
       + ClosedMinutes(streams, i + 1)

\* the totals of document d are those of its list of sessions
TotalsMatch(d) ==
  /\ d.totalStreams = Cardinality({i \in 1..Len(d.streams) : d.streams[i].endTime # Null})
  /\ d.totalStreamTime = ClosedMinutes(d.streams, 1)

\* C34: no session is lost or counted twice: in every state of an aggregate, also after
\* interleaved operations on its key, totalSessions is the number of closed sessions of the
\* list and totalMinutes the sum of the minutes of the closed sessions that are not interrupted.
C34_TotalsMatch == \A d \in 1..Len(docs) : TotalsMatch(docs[d])

----------------------------------------------------------------------------
\* Properties of the reports when the find returns an aggregate twice (SpecReport)

\* the identities (user, startTime, channel) of the stored sessions that overlap the window
OverlappingIdentities ==
  {<<x[1], SessionsOf(x[1])[x[2]].startTime, SessionsOf(x[1])[x[2]].channelId>> :
     x \in {y \in Users \X (1..(MaxSessions + 1)) :
              /\ y[2] <= Len(SessionsOf(y[1]))
              /\ \/ StartsInWindow(SessionsOf(y[1])[y[2]])
                 \/ EndsInWindow(SessionsOf(y[1])[y[2]])
                 \/ SpansWindow(SessionsOf(y[1])[y[2]])}}
IdentityOf(p) == <<p.userId, p.startTime, p.channelId>>

\* C37: in a report run every session identity (user, startTime, channel) is counted at
\* most once: the number of selected streams, in total and per user, is at most the number
\* of distinct stored sessions that overlap the window, also when the find returns an
\* aggregate more than once.
C37_CountedOnce ==
  report.pc = "done" =>
    /\ \A i \in 1..Len(report.processedStreams) : \A j \in 1..Len(report.processedStreams) :
         IdentityOf(report.processedStreams[i]) = IdentityOf(report.processedStreams[j]) => i = j
    /\ Len(report.processedStreams) <= Cardinality(OverlappingIdentities)
    /\ \A u \in DOMAIN report.userStreams :
         report.userStreams[u].streamCount <= Cardinality({x \in OverlappingIdentities : x[1] = u})

\* the find has returned the aggregate of u1, with two sessions in the window, twice, and
\* the report counts two sessions
C37_Witness ==
  /\ report.pc = "done"
  /\ report.found = 2
  /\ store["u2"] = <<>>
  /\ Len(SessionsOf("u1")) = 2
  /\ Cardinality(OverlappingIdentities) = 2
  /\ Len(report.processedStreams) = 2
  /\ report.userStreams["u1"].streamCount = 2

----------------------------------------------------------------------------
\* Properties of the scheduled reports when a generation fails (SpecScheduler)

\* the reports that cycle k has sent to guild i
SentTo(k, i) == {j \in 1..Len(sent[k].reports) : sent[k].reports[j].guild = i}

\* the generation of the report fails for guild i, which the query of the type finds
GenerationFails(i, type) == Matches(guilds[i], type) /\ guilds[i].outcome = "generate"

----------------------------------------------------------------------------
\* The dispatch of the presence events: every voice state update that the gateway
\* delivers, those of bot accounts and those that change neither the streaming flag nor
\* the channel included. The store answers every call.

\* the voice states of a member: those of VoiceStates, and in a channel without streaming
MemberStates == VoiceStates \cup {[NoVoice EXCEPT !.channelId = c] : c \in Channels}

\* the bot accounts of the guild
Bots == {UserOrder[Len(UserOrder)]}

\* the event that `last` holds after a dispatch: the member, its voice states, the
\* documents and the number of notices before the handler ran, and the time
Event(u, old, new) ==
  [op |-> "event", user |-> u, bot |-> u \in Bots, old |-> old, new |-> new,
   docs |-> store[u], notices |-> Len(notices), at |-> now]

\* Discord reports a voice state update of a member, changed or not, and the handler runs
Dispatch ==
  /\ \E u \in Users, new \in MemberStates :
       /\ new.streaming /\ u \notin Bots => TotalStreams(store[u]) < SessionCap(u)
       /\ \E h \in {SkipBots(u \in Bots, store[u], notices, now, u, presence[u], new, sink)} :
            /\ store' = [store EXCEPT ![u] = h.docs]
            /\ notices' = h.notices
       /\ presence' = [presence EXCEPT ![u] = new]
       /\ last' = Event(u, presence[u], new)
  /\ UNCHANGED <<docs, now, ticks, closedBy, tasks, base, storeDown, sink, rec, report, proc, guilds, sent, conn>>

NextDispatch == Dispatch

SpecDispatch == InitHandler /\ [][NextDispatch]_vars

\* the streaming flag and the channel are the same before and after the last event
Unchanged == last.old.streaming = last.new.streaming /\ last.old.channelId = last.new.channelId

\* the documents without what saveStreamNotificationId writes: the reference to the notice
\* and the version that its save increments
Accounting(ds) ==
  [d \in 1..Len(ds) |->
     [ds[d] EXCEPT !.v = 0,
                   !.streams = [i \in 1..Len(ds[d].streams) |-> [ds[d].streams[i] EXCEPT !.notified = FALSE]]]]

\* the documents of the member of the last event are those that one call of the tracker
\* operation op leaves
OneCall(op, channelId) ==
  Accounting(store[last.user]) = Accounting(Run(last.docs, last.at, NewTask(op, channelId)).docs)

\* C36: an event of a member that is not a bot with (wasStreaming, isStreaming) =
\* (false, true) runs exactly one startStreamSession and with (true, false) exactly one
\* endStreamSession; an event that changes neither the flag nor the channel, and every
\* event of a bot, runs no tracker operation, sends nothing and leaves the store as it was.
C36_Dispatch ==
  last.op = "event" =>
    /\ ~last.bot /\ ~last.old.streaming /\ last.new.streaming =>
         /\ OneCall("start", last.new.channelId)
         /\ TotalStreams(store[last.user]) = TotalStreams(last.docs) + 1
    /\ ~last.bot /\ last.old.streaming /\ ~last.new.streaming =>
         /\ OneCall("end", "A")
         /\ TotalStreams(store[last.user]) = TotalStreams(last.docs)
    /\ last.bot \/ Unchanged =>
         /\ store[last.user] = last.docs
         /\ Len(notices) = last.notices

\* an event of the first user, who streams in A, that changes nothing (a mute, say) has
\* left the open session open
C36_Witness ==
  /\ last.op = "event"
  /\ last.user = UserOrder[1] /\ ~last.bot
  /\ last.old.streaming /\ last.old.channelId = "A" /\ last.new = last.old
  /\ TotalStreams(store[last.user]) = 1
  /\ store[last.user][1].streams[1].endTime = Null
  /\ Len(notices) = 1

----------------------------------------------------------------------------
\* The statistics queries: getUserStreamStats and getServerStreamLeaderboard read the
\* stored aggregate and change nothing, so that a query at any moment of a run is a
\* function of the state.

PeriodNames == <<"day", "week", "month">>
\* getServerStreamLeaderboard = async (guildId, period = 'all', limit = 10)
LeaderboardLimit == 10

\* getCurrentPeriodStats computes this.getTimePeriods() and does not use it
getCurrentPeriodStats(d, period) ==
  CASE period = "day"   -> [key |-> d.currentDailyTotal.key,
                            totalMinutes |-> d.currentDailyTotal.totalMinutes,
                            streamCount |-> d.currentDailyTotal.streamCount]
    [] period = "week"  -> [key |-> d.currentWeeklyTotal.key,
                            totalMinutes |-> d.currentWeeklyTotal.totalMinutes,
                            streamCount |-> d.currentWeeklyTotal.streamCount]
    [] period = "month" -> [key |-> d.currentMonthlyTotal.key,
                            totalMinutes |-> d.currentMonthlyTotal.totalMinutes,
                            streamCount |-> d.currentMonthlyTotal.streamCount]
    [] OTHER            -> [totalMinutes |-> d.totalStreamTime, streamCount |-> d.totalStreams]

getUserStreamStats(ds, period) ==
  IF FindOne(ds) = <<>> THEN [totalStreamTime |-> 0, totalStreams |-> 0, periodStats |-> <<>>]
  ELSE [totalStreamTime |-> FindOne(ds)[1].totalStreamTime,
        totalStreams |-> FindOne(ds)[1].totalStreams,
        periodStats |-> <<getCurrentPeriodStats(FindOne(ds)[1], period)>>,
        lastUpdated |-> FindOne(ds)[1].lastUpdated]

\* users.map(user => ...): the figures of the stored window of the period, or the totals
LeaderboardData(d, period) ==
  [streamTime |-> getCurrentPeriodStats(d, period).totalMinutes,
   streamCount |-> getCurrentPeriodStats(d, period).streamCount]

\* .sort((a, b) => b.streamTime - a.streamTime): stable, the longest first
RECURSIVE SortByStreamTime(_, _, _)
SortByStreamTime(s, k, acc) ==
  IF k > Len(s) THEN acc
  ELSE SortByStreamTime(s, k + 1,
         SelectSeq(acc, LAMBDA e : e.streamTime >= s[k].streamTime)
           \o <<s[k]>> \o SelectSeq(acc, LAMBDA e : e.streamTime < s[k].streamTime))

\* .slice(0, limit)
Slice(s, limit) == IF Len(s) <= limit THEN s ELSE SubSeq(s, 1, limit)

getServerStreamLeaderboard(ds, period) ==
  Slice(SortByStreamTime(SelectSeq([d \in 1..Len(ds) |-> LeaderboardData(ds[d], period)],
                                   LAMBDA e : e.streamTime > 0), 1, <<>>),
        LeaderboardLimit)

\* C35: the daily, weekly and monthly figures of getUserStreamStats and of the leaderboard
\* are those of the period that is current when the query runs: when the key of the stored
\* window is an earlier period, totalMinutes and streamCount are 0 and the member has no
\* line on the leaderboard.
C35_CurrentPeriodOnly ==
  \A x \in 1..Len(PeriodNames) :
    Len(docs) > 0 /\ WindowsOf(Agg)[x].key # KeysAt(now)[x] =>
      /\ getUserStreamStats(docs, PeriodNames[x]).periodStats[1].totalMinutes = 0
      /\ getUserStreamStats(docs, PeriodNames[x]).periodStats[1].streamCount = 0
      /\ getServerStreamLeaderboard(docs, PeriodNames[x]) = <<>>

----------------------------------------------------------------------------
\* The store connection of config/database.js: connectDB, which index.js calls once when
\* the module loads, the handlers that setupConnectionHandlers installs on
\* mongoose.connection, and the timers that call connectDB again. The driver decides
\* when an attempt succeeds or fails and when the events are emitted.

MAX_RECONNECT_ATTEMPTS == 5
\* the most timers set, connectDB calls in flight and installed sets of handlers
MaxPending == 2

\* index.js has called connectDB(): connectionAttempts is 1 and mongoose.connect is awaited
Connecting ==
  [readyState |-> 2, attempts |-> 1, isConnectedBefore |-> FALSE, handlers |-> 0,
   timers |-> 0, calls |-> 1, established |-> FALSE]

\* setTimeout(connectDB, RECONNECT_INTERVAL), when connectionAttempts is below the maximum
Retry(c) ==
  IF c.attempts < MAX_RECONNECT_ATTEMPTS THEN [c EXCEPT !.attempts = @ + 1, !.timers = @ + 1] ELSE c

\* the handler of an event of mongoose.connection
Handler(event, c) ==
  CASE event = "connected"    -> [c EXCEPT !.isConnectedBefore = TRUE, !.attempts = 0]
    [] event = "disconnected" -> IF c.isConnectedBefore THEN Retry(c) ELSE c
    [] event = "error"        -> Retry(c)
    [] event = "reconnected"  -> [c EXCEPT !.attempts = 0]

\* the event is emitted: each installed set of handlers runs its handler of the event
RECURSIVE Emit(_, _, _)
Emit(event, c, n) == IF n = 0 THEN c ELSE Emit(event, Handler(event, c), n - 1)

\* the catch block of connectDB: retry after RECONNECT_INTERVAL, or process.exit(1)
Catch(c) ==
  IF c.attempts < MAX_RECONNECT_ATTEMPTS THEN [conn |-> [c EXCEPT !.timers = @ + 1], exit |-> FALSE]
  ELSE [conn |-> c, exit |-> TRUE]

\* if (connectionAttempts === 1) setupConnectionHandlers(conn)
SetupOnFirst(c) == IF c.attempts = 1 THEN [c EXCEPT !.handlers = @ + 1] ELSE c

\* the module has loaded: nothing is stored, the first attempt is in flight
InitConnect ==
  /\ docs = <<>>
  /\ now = StartMs
  /\ ticks = 0
  /\ last = NoCall
  /\ closedBy = <<>>
  /\ tasks = <<>>
  /\ base = <<>>
  /\ store = [u \in Users |-> <<>>]
  /\ presence = [u \in Users |-> NoVoice]
  /\ storeDown = {}
  /\ sink = "ok"
  /\ rec = [NotStarted EXCEPT !.pc = "idle"]
  /\ notices = <<>>
  /\ report = [NewReport(0, 0) EXCEPT !.pc = "idle"]
  /\ proc = Running
  /\ guilds = <<>>
  /\ sent = <<>>
  /\ conn = Connecting

\* mongoose.connect resolves: at once when the connection is up, otherwise the connection
\* opens and 'connected' is emitted before connectDB goes on
ConnectResolves ==
  /\ proc.alive
  /\ conn.calls > 0
  /\ conn.attempts = 1 /\ conn.readyState = 1 => conn.handlers < MaxPending
  /\ conn' = [SetupOnFirst(IF conn.readyState = 1 THEN conn
                           ELSE Emit("connected", [conn EXCEPT !.readyState = 1, !.established = TRUE],
                                     conn.handlers))
                EXCEPT !.calls = @ - 1]
  /\ UNCHANGED <<docs, now, ticks, last, closedBy, tasks, base, store, presence, storeDown, sink, rec, notices,
                 report, proc, guilds, sent>>

\* mongoose.connect rejects: the store cannot be reached
ConnectRejects ==
  /\ proc.alive
  /\ conn.calls > 0
  /\ conn.readyState # 1
  /\ \E r \in {Catch([conn EXCEPT !.calls = @ - 1, !.readyState = IF conn.calls = 1 THEN 0 ELSE 2])} :
       /\ conn' = r.conn
       /\ proc' = [proc EXCEPT !.alive = ~r.exit]
  /\ UNCHANGED <<docs, now, ticks, last, closedBy, tasks, base, store, presence, storeDown, sink, rec, notices,
                 report, guilds, sent>>

\* a timer set by a handler or by the catch block fires: connectDB() runs up to its await
TimerFires ==
  /\ proc.alive
  /\ conn.timers > 0
  /\ conn' = [conn EXCEPT !.timers = @ - 1, !.calls = @ + 1, !.attempts = @ + 1,
                          !.readyState = IF @ = 1 THEN 1 ELSE 2]
  /\ UNCHANGED <<docs, now, ticks, last, closedBy, tasks, base, store, presence, storeDown, sink, rec, notices,
                 report, proc, guilds, sent>>

\* the connection is lost: 'disconnected' is emitted
Disconnects ==
  /\ proc.alive
  /\ conn.readyState = 1
  /\ conn.timers + conn.calls + conn.handlers <= MaxPending
  /\ conn' = Emit("disconnected", [conn EXCEPT !.readyState = IF conn.calls > 0 THEN 2 ELSE 0], conn.handlers)
  /\ UNCHANGED <<docs, now, ticks, last, closedBy, tasks, base, store, presence, storeDown, sink, rec, notices,
                 report, proc, guilds, sent>>

\* the driver reports an error on the connection: 'error' is emitted
ConnectionError ==
  /\ proc.alive
  /\ conn.handlers > 0
  /\ conn.timers + conn.calls + conn.handlers <= MaxPending
  /\ conn' = Emit("error", conn, conn.handlers)
  /\ UNCHANGED <<docs, now, ticks, last, closedBy, tasks, base, store, presence, storeDown, sink, rec, notices,
                 report, proc, guilds, sent>>

\* the driver reopens a connection that was lost: 'connected' and 'reconnected' are emitted
Reconnects ==
  /\ proc.alive
  /\ conn.established
  /\ conn.readyState # 1
  /\ conn' = Emit("reconnected", Emit("connected", [conn EXCEPT !.readyState = 1], conn.handlers), conn.handlers)
  /\ UNCHANGED <<docs, now, ticks, last, closedBy, tasks, base, store, presence, storeDown, sink, rec, notices,
                 report, proc, guilds, sent>>

NextConnect == ConnectResolves \/ ConnectRejects \/ TimerFires \/ Disconnects \/ ConnectionError \/ Reconnects

SpecConnect == InitConnect /\ [][NextConnect]_vars

\* C40: the process exits for store unavailability only at startup, after
\* MAX_RECONNECT_ATTEMPTS failed attempts of the initial connection: once a connection has
\* been established, a disconnect or a connection error never ends the process.
C40_FatalOnlyAtStartup ==
  ~proc.alive => ~conn.established /\ conn.attempts = MAX_RECONNECT_ATTEMPTS /\ conn.handlers = 0

----------------------------------------------------------------------------
\* Startup: index.js calls connectDB() without awaiting it and logs in; the ready handler
\* runs checkPreviousSessionStreams when Discord reports the client ready, whether or not
\* the store connection is up by then.

\* the store as the prior run left it; the first connection attempt may still be in flight
InitStartup ==
  /\ docs = <<>>
  /\ now = StartMs
  /\ ticks = 0
  /\ last = NoCall
  /\ closedBy = <<>>
  /\ tasks = <<>>
  /\ base = <<>>
  /\ store \in [Users -> PriorRuns]
  /\ presence \in [Users -> Presences]
  /\ storeDown = {}
  /\ sink = "ok"
  /\ rec = NotStarted
  /\ notices = <<>>
  /\ report = [NewReport(0, 0) EXCEPT !.pc = "idle"]
  /\ proc = Running
  /\ guilds = <<>>
  /\ sent = <<>>
  /\ conn \in {Connected, Connecting}

NextStartup == BeginRecovery \/ Reconcile \/ ConnectResolves \/ ConnectRejects \/ TimerFires

SpecStartup == InitStartup /\ [][NextStartup]_vars

\* the latest session of user u is open
OpenSession(u) == Len(store[u]) > 0 /\ ~Closed(Last(store[u][1].streams))

\* C31: when recovery has completed, every session that the prior run left open is closed
\* as interrupted or belongs to a member who is streaming in the recorded channel, also
\* when the store connection is not yet established as the client becomes ready.
C31_AllOpenExamined ==
  rec.pc = "done" =>
    \A u \in Users :
      OpenSession(u) => StillLive(presence[u], ActiveEntry(u, store[u][1]))

----------------------------------------------------------------------------
\* Recovery while presence events arrive: checkPreviousSessionStreams lists the active
\* streams once and then awaits Discord and the store for each of them, and the
\* VoiceStateUpdate handler runs for the events that arrive between two iterations.

\* the store as the prior run left it; the notification channel works
InitRecoveryLive ==
  /\ InitRecovery
  /\ sink = "ok"

NextRecoveryLive == BeginRecovery \/ Reconcile \/ VoiceStateUpdate

SpecRecoveryLive == InitRecoveryLive /\ [][NextRecoveryLive]_vars

\* the sessions of the user of the entry that the step has marked interrupted
NewlyInterrupted ==
  {i \in 1..Len(store'[Entry.userId][1].streams) :
     /\ store'[Entry.userId][1].streams[i].interrupted
     /\ i <= Len(store[Entry.userId][1].streams) => ~store[Entry.userId][1].streams[i].interrupted}

\* C32: recovery interrupts only sessions that the prior run left open: a session that an
\* iteration of recovery closes as interrupted is the listed one (same start, same
\* channel), never a session that a presence event has started since the listing.
C32_OnlyPriorSessions ==
  [][rec.pc = "loop" /\ rec' # rec =>
       \A i \in NewlyInterrupted :
         /\ store'[Entry.userId][1].streams[i].startTime = Entry.startTime
         /\ store'[Entry.userId][1].streams[i].channelId = Entry.channelId
    ]_vars

----------------------------------------------------------------------------
\* The start notification in flight: the handler of a start event awaits
\* notificationChannel.send and then saveStreamNotificationId, and the handlers of the
\* events that arrive before the send has resolved run meanwhile.

\* the sends in flight are kept in `tasks`: the user, the session that the notice
\* announces (its position in the streams of the aggregate) and the id of the message
PendingSend(u, ds, ns) == [userId |-> u, session |-> TotalStreams(ds), messageId |-> Len(ns)]

\* what saveStreamNotificationId has done, kept in `last`: the message id it was given,
\* the session the message announces and the session it has set the ids on (0: none)
SavedRef(p, ds) ==
  [op |-> "ref", userId |-> p.userId, messageId |-> p.messageId, session |-> p.session,
   attached |-> IF HasOpen(FindOne(ds)) THEN TotalStreams(ds) ELSE 0]

\* the store is empty, nobody is streaming and the notification channel works
InitNotify ==
  /\ InitHandler
  /\ sink = "ok"

\* a member starts streaming: the handler awaits startStreamSession and, in
\* sendStreamNotification, the send of the "started" message
StartEvent ==
  /\ Len(tasks) < MaxTasks
  /\ \E u \in Users, c \in Channels :
       /\ ~presence[u].streaming
       /\ TotalStreams(store[u]) < SessionCap(u)
       /\ u # UserOrder[1] => c = "A"
       /\ \E h \in {Await(Handling(store[u], notices, 0), now, NewTask("start", c))} :
            /\ store' = [store EXCEPT ![u] = h.docs]
            /\ notices' = Append(notices, StartedNotice(u, c))
            /\ tasks' = Append(tasks, PendingSend(u, h.docs, Append(notices, StartedNotice(u, c))))
       /\ presence' = [presence EXCEPT ![u] = [NoVoice EXCEPT !.channelId = c, !.streaming = TRUE]]
  /\ UNCHANGED <<docs, now, ticks, last, closedBy, base, storeDown, sink, rec, report, proc, guilds, sent, conn>>

\* a member stops streaming: the handler runs to its end
StopEvent ==
  /\ \E u \in Users :
       /\ presence[u].streaming
       /\ \E h \in {OnVoiceStateUpdate(store[u], notices, now, u, presence[u], NoVoice, sink, 0)} :
            /\ store' = [store EXCEPT ![u] = h.docs]
            /\ notices' = h.notices
       /\ presence' = [presence EXCEPT ![u] = NoVoice]
  /\ UNCHANGED <<docs, now, ticks, last, closedBy, tasks, base, storeDown, sink, rec, report, proc, guilds, sent, conn>>

\* a send resolves and its handler goes on: await saveStreamNotificationId(user.id,
\* guild.id, sentMessage.id, notificationChannel.id)
SendResolves ==
  /\ \E i \in 1..Len(tasks) :
       /\ \E h \in {SaveNotificationId(Handling(store[tasks[i].userId], notices, 0))} :
            store' = [store EXCEPT ![tasks[i].userId] = h.docs]
       /\ last' = SavedRef(tasks[i], store[tasks[i].userId])
       /\ tasks' = SubSeq(tasks, 1, i - 1) \o SubSeq(tasks, i + 1, Len(tasks))
  /\ UNCHANGED <<docs, now, ticks, closedBy, base, presence, storeDown, sink, rec, notices, report, proc, guilds, sent, conn>>

NextNotify == StartEvent \/ StopEvent \/ SendResolves

SpecNotify == InitNotify /\ [][NextNotify]_vars

\* C33: the notificationRef stored on a session is that of the "started" notice sent for
\* the same session, also when stop and start events of the user are handled while the
\* notice is being sent: the reference of the notice of one session is never set on another.
C33_RefOfSameSession ==
  last.op = "ref" /\ last.attached # 0 => last.attached = last.session

----------------------------------------------------------------------------
\* A scheduled cycle step by step: sendScheduledReports awaits the report of one guild
\* after the other, and an await that never resolves (the generation or the send stalls)
\* never returns. The cycles in flight are kept in `tasks`.

\* the hours the clock advances in a run
MaxCycleHours == 2

\* what may be stored and answered for a guild: as in GuildEnvs, in UTC, or a report that stalls
CycleEnvs ==
  {g \in GuildEnvs : g.offset = 0 /\ g.channel}
    \cup {[g EXCEPT !.outcome = "stall"] : g \in {e \in GuildEnvs : e.offset = 0 /\ e.channel /\ e.outcome = "ok"}}

\* the cycle of the type that began at instant t: the guilds the query found, the one
\* whose report is awaited, the reports sent so far
NewCycle(gs, type, t) ==
  [type |-> type, at |-> t, found |-> Find(gs, type, 1), next |-> 1, reports |-> <<>>, threw |-> FALSE]

\* a cycle of the type has begun at the current instant
Began(type) ==
  \/ Ran(type)
  \/ \E k \in 1..Len(tasks) : tasks[k].type = type /\ tasks[k].at = now

\* the bot has started at 22:00 with an empty store
InitCycle ==
  /\ docs = <<>>
  /\ now = 22 * HourMs
  /\ ticks = 0
  /\ last = NoCall
  /\ closedBy = <<>>
  /\ tasks = <<>>
  /\ base = <<>>
  /\ store = [u \in Users |-> <<>>]
  /\ presence = [u \in Users |-> NoVoice]
  /\ storeDown = {}
  /\ sink = "ok"
  /\ rec = [NotStarted EXCEPT !.pc = "idle"]
  /\ notices = <<>>
  /\ report = [NewReport(0, 0) EXCEPT !.pc = "idle"]
  /\ proc = Running
  /\ guilds \in [1..Len(GuildOrder) -> CycleEnvs]
  /\ sent = <<>>
  /\ conn = Connected

\* a cron task fires: sendScheduledReports runs up to its first await in the loop
CycleBegins ==
  /\ \E type \in {"hourly", "daily"} :
       /\ IF type = "hourly" THEN StartOfHour(now) ELSE Midnight(now)
       /\ ~Began(type)
       /\ tasks' = Append(tasks, NewCycle(guilds, type, now))
  /\ UNCHANGED <<docs, now, ticks, last, closedBy, base, store, presence, storeDown, sink, rec, notices,
                 report, proc, guilds, sent, conn>>

\* await sendHourlyReportToGuild(guildConfig) or sendDailyReportToGuild(guildConfig)
\* returns and the loop goes on to the next guild; a report that stalls never returns
CycleStep ==
  /\ \E k \in 1..Len(tasks) :
       /\ tasks[k].next <= Len(tasks[k].found)
       /\ guilds[tasks[k].found[tasks[k].next]].outcome # "stall"
       /\ tasks' = [tasks EXCEPT ![k] =
            [SendReportToGuild(tasks[k], store, tasks[k].type, tasks[k].at, tasks[k].found[tasks[k].next],
                               guilds[tasks[k].found[tasks[k].next]])
               EXCEPT !.next = @ + 1]]
  /\ UNCHANGED <<docs, now, ticks, last, closedBy, base, store, presence, storeDown, sink, rec, notices,
                 report, proc, guilds, sent, conn>>

\* the loop is over and sendScheduledReports returns
CycleEnds ==
  /\ \E k \in 1..Len(tasks) :
       /\ tasks[k].next > Len(tasks[k].found)
       /\ sent' = Append(sent, [type |-> tasks[k].type, at |-> tasks[k].at, reports |-> tasks[k].reports])
       /\ tasks' = SubSeq(tasks, 1, k - 1) \o SubSeq(tasks, k + 1, Len(tasks))
  /\ UNCHANGED <<docs, now, ticks, last, closedBy, base, store, presence, storeDown, sink, rec, notices,
                 report, proc, guilds, conn>>

\* an hour passes, once the tasks of the instant have fired
HourPasses ==
  /\ ticks < MaxCycleHours
  /\ StartOfHour(now) => Began("hourly")
  /\ Midnight(now) => Began("daily")
  /\ now' = now + HourMs
  /\ ticks' = ticks + 1
  /\ UNCHANGED <<docs, last, closedBy, tasks, base, store, presence, storeDown, sink, rec, notices,
                 report, proc, guilds, sent, conn>>

NextCycle == CycleBegins \/ CycleStep \/ CycleEnds \/ HourPasses

\* an await that has resolved goes on, and a cron task whose instant has come fires
SpecCycle ==
  /\ InitCycle
  /\ [][NextCycle]_vars
  /\ WF_vars(CycleBegins) /\ WF_vars(CycleStep) /\ WF_vars(CycleEnds)

\* the cycle of the type that began at instant t has sent a report to guild i
ReportedIn(i, type, t) ==
  \/ \E k \in 1..Len(tasks) :
       tasks[k].type = type /\ tasks[k].at = t /\ \E j \in 1..Len(tasks[k].reports) : tasks[k].reports[j].guild = i
  \/ \E k \in 1..Len(sent) :
       sent[k].type = type /\ sent[k].at = t /\ \E j \in 1..Len(sent[k].reports) : sent[k].reports[j].guild = i

\* C39: in a scheduling cycle, a report of one guild that stalls does not block the other
\* eligible guilds: each guild that the query finds and whose own report can be generated
\* and sent eventually gets its report in that cycle.
C39_OthersNotBlocked ==
  \A i \in 1..Len(GuildOrder) : \A type \in {"hourly", "daily"} : \A h \in 22..(22 + MaxCycleHours) :
    (now = h * HourMs /\ Began(type) /\ Eligible(i, type)) ~> ReportedIn(i, type, h * HourMs)

====
